---- MODULE Spec2Model ----
(***************************************************************************)
(* A model of the packaging core of LetsGoIntunePackager:                  *)
(*   - the crypto primitives of internal/packager/encryption.go,           *)
(*   - the compressor and the container assembler (zipper.go),             *)
(*   - the descriptor serializer and the orchestrator Package              *)
(*     (metadata.go / packager.go).                                        *)
(* Bytes are the integers 0..255, byte strings are sequences of bytes,     *)
(* file names are sequences of one-character strings.                      *)
(***************************************************************************)
EXTENDS Integers, Sequences, FiniteSets, TLC

VARIABLES
    \* ---- harness of the crypto primitives (SpecCrypto) ----
    cpc,        \* "init" | "encrypted" | "tampered" | "failed" | "decrypted" | "unpad" | "unpadded"
    cin,        \* the arguments of EncryptContent: [plaintext, encKey, macKey, iv]
    blob,       \* the blob EncryptContent returned
    recv,       \* the blob handed to DecryptContent (blob, possibly tampered)
    dec,        \* what DecryptContent returned
    unpadIn,    \* the argument of a direct PKCS7Unpad call
    unpadOut,   \* what that call returned
    oracle,     \* the digests computed so far (SHA-256 and HMAC-SHA256 queries)
    \* ---- harness of the MSI package-code extractor (SpecMsi) ----
    ole,        \* [pc, present, str (PIDSI_REVNUMBER), fallback, packageCode]
    xm,         \* one call of ExtractMsiInfo: [pc, file, err, info, ran]
    \* ---- the terminal interface (SpecTui) ----
    tui,        \* [m (the Model), quit, runs (the startPackaging commands), nkeys, last]
    \* ---- one call of Package (Spec) ----
    pc,         \* where the call is: "start", "stats", "msi", ..., "returned"
    args,       \* [sourcePath, setupFile, outputPath, progress (is a callback given)]
    fs,         \* the file system: cleaned path -> node
    progressLog,\* the calls of the progress callback, in order
    stageLog,   \* the stages entered, in order
    ret,        \* what Package returned: [err (stage prefix), cause, result]
    zw,         \* ZipFolderWithProgress: [total, processed, todo, entries, open, peak]
    pk          \* the locals of Package

-----------------------------------------------------------------------------
(* Bounds of the model *)

MaxPlainLen == 17       \* longest plaintext handed to EncryptContent
MaxUnpadLen == 18       \* longest input handed directly to PKCS7Unpad

(* Program constants *)

BlockSize == 16         \* aes.BlockSize
KeySize == 32           \* AES-256 key and HMAC key length
MacSize == 32           \* HMAC-SHA256 / SHA-256 output length
HeaderSize == 48        \* 32 (HMAC) + 16 (IV)

-----------------------------------------------------------------------------
(* Byte helpers *)

Byte == 0..255

Fill(n, b) == [i \in 1..n |-> b]

Min(a, b) == IF a < b THEN a ELSE b

RECURSIVE XorBits(_, _, _)
XorBits(a, b, n) ==
    IF n = 0 THEN 0
    ELSE (((a % 2) + (b % 2)) % 2) + 2 * XorBits(a \div 2, b \div 2, n - 1)

Xor(a, b) == XorBits(a, b, 8)

XorBlock(x, y) == [i \in 1..BlockSize |-> Xor(x[i], y[i])]

\* flip the bits of `mask` in the byte at 1-based position pos
FlipBits(s, pos, mask) == [s EXCEPT ![pos] = Xor(s[pos], mask)]

Ok(d) == [err |-> "", data |-> d]
Fail(e) == [err |-> e, data |-> <<>>]

-----------------------------------------------------------------------------
(* PKCS#7 *)

PKCS7PadNoFullBlock(data, blockSize) ==
    LET padding == (blockSize - (Len(data) % blockSize)) % blockSize
    IN  data \o Fill(padding, padding)

PKCS7PadModulo(data, blockSize) ==
    LET padding == blockSize - (Len(data) % blockSize)
    IN  data \o Fill(padding, padding % blockSize)

PKCS7Pad(data, blockSize) ==
    LET padding == blockSize - (Len(data) % blockSize)
    IN  data \o Fill(padding, padding)

PKCS7Unpad(data) ==
    IF Len(data) = 0 THEN Fail("empty data")
    ELSE LET padding == data[Len(data)]
         IN  IF padding > Len(data) \/ padding > BlockSize
             THEN Fail("invalid padding")
             ELSE IF \E i \in (Len(data) - padding + 1)..Len(data) : data[i] # padding
                  THEN Fail("invalid padding bytes")
                  ELSE Ok(SubSeq(data, 1, Len(data) - padding))

-----------------------------------------------------------------------------
(* The library primitives the code calls.                                  *)
(* crypto/aes: a keyed permutation of 16-byte blocks with its inverse.     *)
(* crypto/cipher CBC: c[i] = E(p[i] xor c[i-1]), c[0] = iv.                *)
(* crypto/sha256, crypto/hmac: ideal digests. Every distinct query         *)
(* <<algorithm, key, message>> gets its own 32-byte digest, the same one   *)
(* every time it is asked: `oracle` lists the queries made so far and the  *)
(* digest of a query encodes its position in that list.                    *)

Rot(i) == (i % BlockSize) + 1
RotInv(j) == ((j + BlockSize - 2) % BlockSize) + 1

AESEncryptBlock(key, b) ==
    [i \in 1..BlockSize |-> (b[Rot(i)] + key[i] + key[i + BlockSize]) % 256]

AESDecryptBlock(key, c) ==
    [j \in 1..BlockSize |->
        (c[RotInv(j)] + 512 - key[RotInv(j)] - key[RotInv(j) + BlockSize]) % 256]

RECURSIVE CBCEncrypt(_, _, _)
CBCEncrypt(key, prev, src) ==
    IF Len(src) = 0 THEN <<>>
    ELSE LET c == AESEncryptBlock(key, XorBlock(SubSeq(src, 1, BlockSize), prev))
         IN  c \o CBCEncrypt(key, c, SubSeq(src, BlockSize + 1, Len(src)))

RECURSIVE CBCDecrypt(_, _, _)
CBCDecrypt(key, prev, src) ==
    IF Len(src) = 0 THEN <<>>
    ELSE LET c == SubSeq(src, 1, BlockSize)
         IN  XorBlock(AESDecryptBlock(key, c), prev)
                \o CBCDecrypt(key, c, SubSeq(src, BlockSize + 1, Len(src)))

OracleIndex(orc, q) ==
    IF \E i \in 1..Len(orc) : orc[i] = q
    THEN CHOOSE i \in 1..Len(orc) : orc[i] = q
    ELSE Len(orc) + 1

OracleAsk(orc, q) ==
    IF \E i \in 1..Len(orc) : orc[i] = q THEN orc ELSE Append(orc, q)

DigestOf(n) ==
    [i \in 1..MacSize |->
        IF i = MacSize THEN n % 256
        ELSE IF i = MacSize - 1 THEN (n \div 256) % 256
        ELSE ((7 * i) + 3) % 256]

HmacQuery(key, msg) == <<"hmac-sha256", key, msg>>
ShaQuery(msg) == <<"sha256", <<>>, msg>>

HmacSha256(orc, key, msg) == DigestOf(OracleIndex(orc, HmacQuery(key, msg)))
Sha256(orc, msg) == DigestOf(OracleIndex(orc, ShaQuery(msg)))

-----------------------------------------------------------------------------
(* EncryptContent / DecryptContent *)

\* the message EncryptContent authenticates: iv || ciphertext
EncryptMacInput(plaintext, encKey, iv) ==
    iv \o CBCEncrypt(encKey, iv, PKCS7Pad(plaintext, BlockSize))

EncryptContentIvLast(orc, plaintext, encKey, macKey, iv) ==
    IF Len(encKey) # KeySize THEN Fail("encryption key must be 32 bytes")
    ELSE IF Len(macKey) # KeySize THEN Fail("MAC key must be 32 bytes")
    ELSE IF Len(iv) # BlockSize THEN Fail("IV must be 16 bytes")
    ELSE LET ciphertext == CBCEncrypt(encKey, iv, PKCS7Pad(plaintext, BlockSize))
             hmacResult == HmacSha256(orc, macKey, iv \o ciphertext)
         IN  Ok(hmacResult \o ciphertext \o iv)

EncryptContent(orc, plaintext, encKey, macKey, iv) ==
    IF Len(encKey) # KeySize THEN Fail("encryption key must be 32 bytes")
    ELSE IF Len(macKey) # KeySize THEN Fail("MAC key must be 32 bytes")
    ELSE IF Len(iv) # BlockSize THEN Fail("IV must be 16 bytes")
    ELSE LET ivAndCiphertext == EncryptMacInput(plaintext, encKey, iv)
             hmacResult == HmacSha256(orc, macKey, ivAndCiphertext)
         IN  Ok(hmacResult \o ivAndCiphertext)

\* the bytes DecryptContent recomputes the MAC over: encrypted[32:]
DecryptMacInput(encrypted) == SubSeq(encrypted, MacSize + 1, Len(encrypted))

DecryptContentUnverified(orc, encrypted, encKey, macKey) ==
    IF Len(encrypted) < HeaderSize
    THEN [err |-> "encrypted data too short", data |-> <<>>, stage |-> "length"]
    ELSE LET iv == SubSeq(encrypted, MacSize + 1, HeaderSize)
             ciphertext == SubSeq(encrypted, HeaderSize + 1, Len(encrypted))
             r == PKCS7Unpad(CBCDecrypt(encKey, iv, ciphertext))
         IN  [err |-> r.err, data |-> r.data,
              stage |-> IF r.err = "" THEN "done" ELSE "unpad"]

\* stage: how far the call got ("length", "mac", "cipher", "unpad", "done")
DecryptContent(orc, encrypted, encKey, macKey) ==
    IF Len(encrypted) < HeaderSize
    THEN [err |-> "encrypted data too short", data |-> <<>>, stage |-> "length"]
    ELSE LET hmacReceived == SubSeq(encrypted, 1, MacSize)
             iv == SubSeq(encrypted, MacSize + 1, HeaderSize)
             ciphertext == SubSeq(encrypted, HeaderSize + 1, Len(encrypted))
             hmacCalculated == HmacSha256(orc, macKey, DecryptMacInput(encrypted))
         IN  IF hmacReceived # hmacCalculated
             THEN [err |-> "HMAC verification failed", data |-> <<>>, stage |-> "mac"]
             ELSE IF Len(encKey) # KeySize
             THEN [err |-> "failed to create AES cipher", data |-> <<>>, stage |-> "cipher"]
             ELSE IF Len(ciphertext) % BlockSize # 0
             THEN [err |-> "panic: input not full blocks", data |-> <<>>, stage |-> "cipher"]
             ELSE LET r == PKCS7Unpad(CBCDecrypt(encKey, iv, ciphertext))
                  IN  [err |-> r.err, data |-> r.data,
                       stage |-> IF r.err = "" THEN "done" ELSE "unpad"]

-----------------------------------------------------------------------------
(* Strings. A Go string is a sequence of one-character strings; Ascii      *)
(* lists the printable characters from code 32 to code 126 (the quote,     *)
(* the backslash and the backtick are spelled out).                        *)

Ascii ==
    <<" ", "!", "dquote", "#", "$", "%", "&", "'", "(", ")", "*", "+",
       ",", "-", ".", "/", "0", "1", "2", "3", "4", "5", "6", "7",
       "8", "9", ":", ";", "<", "=", ">", "?", "@", "A", "B", "C",
       "D", "E", "F", "G", "H", "I", "J", "K", "L", "M", "N", "O",
       "P", "Q", "R", "S", "T", "U", "V", "W", "X", "Y", "Z", "[",
       "bslash", "]", "^", "_", "btick", "a", "b", "c", "d", "e", "f", "g",
       "h", "i", "j", "k", "l", "m", "n", "o", "p", "q", "r", "s",
       "t", "u", "v", "w", "x", "y", "z", "{", "|", "}", "~">>

AsciiCode == [c \in {Ascii[i] : i \in 1..Len(Ascii)} |->
                 31 + (CHOOSE i \in 1..Len(Ascii) : Ascii[i] = c)]

Bytes(str) == [i \in 1..Len(str) |-> AsciiCode[str[i]]]
Chars(bs) == [i \in 1..Len(bs) |-> Ascii[bs[i] - 31]]

\* strings.ToLower on ASCII
LowerChar(c) ==
    IF AsciiCode[c] >= 65 /\ AsciiCode[c] <= 90 THEN Ascii[AsciiCode[c] + 32 - 31] ELSE c

ToLower(str) == [i \in 1..Len(str) |-> LowerChar(str[i])]

HasSuffix(str, suffix) ==
    /\ Len(str) >= Len(suffix)
    /\ SubSeq(str, Len(str) - Len(suffix) + 1, Len(str)) = suffix

\* byte-wise comparison of strings (the order of sort.Strings)
RECURSIVE StrLess(_, _)
StrLess(a, b) ==
    IF Len(b) = 0 THEN FALSE
    ELSE IF Len(a) = 0 THEN TRUE
    ELSE IF AsciiCode[a[1]] # AsciiCode[b[1]] THEN AsciiCode[a[1]] < AsciiCode[b[1]]
    ELSE StrLess(Tail(a), Tail(b))

RECURSIVE JoinWith(_, _)
JoinWith(parts, sep) ==
    IF Len(parts) = 0 THEN <<>>
    ELSE IF Len(parts) = 1 THEN parts[1]
    ELSE parts[1] \o sep \o JoinWith(Tail(parts), sep)

\* strings.Split(str, "/")
RECURSIVE SplitFrom(_, _, _)
SplitFrom(str, i, cur) ==
    IF i > Len(str) THEN <<cur>>
    ELSE IF str[i] = "/" THEN <<cur>> \o SplitFrom(str, i + 1, <<>>)
    ELSE SplitFrom(str, i + 1, Append(cur, str[i]))

Split(str) == SplitFrom(str, 1, <<>>)

\* filepath.Ext: the suffix beginning at the final dot of the final element
RECURSIVE ExtFrom(_, _)
ExtFrom(path, i) ==
    IF i < 1 \/ path[i] = "/" THEN <<>>
    ELSE IF path[i] = "." THEN SubSeq(path, i, Len(path))
    ELSE ExtFrom(path, i - 1)

Ext(path) == ExtFrom(path, Len(path))

-----------------------------------------------------------------------------
(* Paths and the file system. A cleaned relative path is the sequence of   *)
(* its elements; <<>> is the working directory. fs maps every existing     *)
(* path to its node.                                                       *)

DotDot == <<".", ".">>

\* filepath.Clean on the elements of a relative path
RECURSIVE CleanFrom(_, _)
CleanFrom(elems, acc) ==
    IF Len(elems) = 0 THEN acc
    ELSE LET e == elems[1]
         IN  IF e = <<>> \/ e = <<".">> THEN CleanFrom(Tail(elems), acc)
             ELSE IF e = DotDot /\ Len(acc) > 0 /\ acc[Len(acc)] # DotDot
                  THEN CleanFrom(Tail(elems), SubSeq(acc, 1, Len(acc) - 1))
                  ELSE CleanFrom(Tail(elems), Append(acc, e))

Clean(path) == CleanFrom(Split(path), <<>>)

\* filepath.Join(a, b), as a cleaned path
Join(a, b) ==
    IF Len(a) = 0 THEN Clean(b)
    ELSE IF Len(b) = 0 THEN Clean(a)
    ELSE Clean(a \o <<"/">> \o b)

\* the string of a cleaned path
PathString(p) == IF Len(p) = 0 THEN <<".">> ELSE JoinWith(p, <<"/">>)

\* whole is FALSE for a file that a failed write left truncated
Dir == [kind |-> "dir", data |-> <<>>, whole |-> TRUE]
File(d) == [kind |-> "file", data |-> d, whole |-> TRUE]
Partial(d) == [kind |-> "file", data |-> d, whole |-> FALSE]

Exists(f, p) == p \in DOMAIN f
IsDir(f, p) == Exists(f, p) /\ f[p].kind = "dir"
IsFile(f, p) == Exists(f, p) /\ f[p].kind = "file"

Children(f, p) ==
    { q \in DOMAIN f : Len(q) = Len(p) + 1 /\ SubSeq(q, 1, Len(p)) = p }

\* the paths of a set in the byte-wise order of their last elements
RECURSIVE SortByName(_)
SortByName(S) ==
    IF S = {} THEN <<>>
    ELSE LET m == CHOOSE x \in S :
                    \A y \in S \ {x} : StrLess(x[Len(x)], y[Len(y)])
         IN  <<m>> \o SortByName(S \ {m})

\* filepath.Walk: the root, then its entries in lexical order, depth first
RECURSIVE WalkList(_, _)
RECURSIVE WalkAll(_, _)
WalkAll(f, ps) ==
    IF Len(ps) = 0 THEN <<>>
    ELSE WalkList(f, ps[1]) \o WalkAll(f, Tail(ps))

WalkList(f, p) ==
    IF IsDir(f, p) THEN <<p>> \o WalkAll(f, SortByName(Children(f, p)))
    ELSE <<p>>

\* filepath.Rel(root, p) for p below root, with "/" as the separator
Rel(root, p) == JoinWith(SubSeq(p, Len(root) + 1, Len(p)), <<"/">>)

(* The strings of the model: file names, extensions, MSI property values *)

S ==
    [src |-> <<"s", "r", "c">>,
     one |-> <<"o", "n", "e">>,
     empty |-> <<"e", "m", "p", "t", "y">>,
     afile |-> <<"a", "f", "i", "l", "e">>,
     nosuch |-> <<"n", "o", "s", "u", "c", "h">>,
     out |-> <<"o", "u", "t">>,
     hollow |-> <<"h", "o", "l", "l", "o", "w">>,
     inner |-> <<"i", "n", "n", "e", "r">>,
     new |-> <<"n", "e", "w">>,
     setup_exe |-> <<"s", "e", "t", "u", "p", ".", "e", "x", "e">>,
     Setup_Msi |-> <<"S", "e", "t", "u", "p", ".", "M", "s", "i">>,
     app_msi |-> <<"a", "p", "p", ".", "m", "s", "i">>,
     install_ps1 |-> <<"i", "n", "s", "t", "a", "l", "l", ".", "p", "s", "1">>,
     notes_txt |-> <<"n", "o", "t", "e", "s", ".", "t", "x", "t">>,
     data |-> <<"d", "a", "t", "a">>,
     c_json |-> <<"c", ".", "j", "s", "o", "n">>,
     sub |-> <<"s", "u", "b">>,
     sub_setup_exe |-> <<"s", "u", "b", "/", "s", "e", "t", "u", "p", ".", "e", "x", "e">>,
     up_setup_exe |-> <<".", ".", "/", "s", "e", "t", "u", "p", ".", "e", "x", "e">>,
     missing_exe |-> <<"m", "i", "s", "s", "i", "n", "g", ".", "e", "x", "e">>,
     app_intunewin |-> <<"a", "p", "p", ".", "i", "n", "t", "u", "n", "e", "w", "i", "n">>,
     dot_msi |-> <<".", "m", "s", "i">>,
     dot_exe |-> <<".", "e", "x", "e">>,
     dot_MSI |-> <<".", "M", "S", "I">>,
     dot_EXE |-> <<".", "E", "X", "E">>,
     dot_ps1 |-> <<".", "p", "s", "1">>,
     dot_cmd |-> <<".", "c", "m", "d">>,
     dot_bat |-> <<".", "b", "a", "t">>,
     dot_intunewin |-> <<".", "i", "n", "t", "u", "n", "e", "w", "i", "n">>,
     complete |-> <<"c", "o", "m", "p", "l", "e", "t", "e">>,
     guid1 |-> <<"{", "1", "2", "3", "4", "5", "6", "7", "8", "-", "1", "2", "3", "4", "-", "1", "2", "3", "4", "-", "1", "2", "3", "4", "-", "1", "2", "3", "4", "5", "6", "7", "8", "9", "A", "B", "C", "}">>,
     version |-> <<"8", ".", "8", ".", "8">>,
     publisher |-> <<"A", "c", "m", "e", " ", "C", "o", "r", "p">>,
     product |-> <<"A", "c", "m", "e", " ", "A", "p", "p">>,
     ProductCode |-> <<"P", "r", "o", "d", "u", "c", "t", "C", "o", "d", "e">>,
     ProductVersion |-> <<"P", "r", "o", "d", "u", "c", "t", "V", "e", "r", "s", "i", "o", "n">>,
     Manufacturer |-> <<"M", "a", "n", "u", "f", "a", "c", "t", "u", "r", "e", "r">>,
     UpgradeCode |-> <<"U", "p", "g", "r", "a", "d", "e", "C", "o", "d", "e">>,
     ProductName |-> <<"P", "r", "o", "d", "u", "c", "t", "N", "a", "m", "e">>,
     ProductLanguage |-> <<"P", "r", "o", "d", "u", "c", "t", "L", "a", "n", "g", "u", "a", "g", "e">>,
     SecureCustomProperties |-> <<"S", "e", "c", "u", "r", "e", "C", "u", "s", "t", "o", "m", "P", "r", "o", "p", "e", "r", "t", "i", "e", "s">>]


-----------------------------------------------------------------------------
(* encoding/base64, StdEncoding (with padding) *)

B64Char(n) ==
    IF n < 26 THEN Ascii[65 + n - 31]
    ELSE IF n < 52 THEN Ascii[97 + (n - 26) - 31]
    ELSE IF n < 62 THEN Ascii[48 + (n - 52) - 31]
    ELSE IF n = 62 THEN "+" ELSE "/"

B64Val(c) ==
    IF c = "+" THEN 62
    ELSE IF c = "/" THEN 63
    ELSE IF AsciiCode[c] >= 97 THEN AsciiCode[c] - 97 + 26
    ELSE IF AsciiCode[c] >= 65 THEN AsciiCode[c] - 65
    ELSE AsciiCode[c] - 48 + 52

RECURSIVE Base64Encode(_)
Base64Encode(bs) ==
    IF Len(bs) = 0 THEN <<>>
    ELSE IF Len(bs) = 1 THEN
        <<B64Char(bs[1] \div 4), B64Char((bs[1] % 4) * 16), "=", "=">>
    ELSE IF Len(bs) = 2 THEN
        <<B64Char(bs[1] \div 4),
          B64Char((bs[1] % 4) * 16 + (bs[2] \div 16)),
          B64Char((bs[2] % 16) * 4), "=">>
    ELSE
        <<B64Char(bs[1] \div 4),
          B64Char((bs[1] % 4) * 16 + (bs[2] \div 16)),
          B64Char((bs[2] % 16) * 4 + (bs[3] \div 64)),
          B64Char(bs[3] % 64)>> \o Base64Encode(SubSeq(bs, 4, Len(bs)))

RECURSIVE Base64Decode(_)
Base64Decode(str) ==
    IF Len(str) < 4 THEN <<>>
    ELSE LET a == B64Val(str[1])
             b == B64Val(str[2])
         IN  IF str[3] = "=" THEN <<a * 4 + (b \div 16)>>
             ELSE LET c == B64Val(str[3])
                  IN  IF str[4] = "="
                      THEN <<a * 4 + (b \div 16), (b % 16) * 16 + (c \div 4)>>
                      ELSE <<a * 4 + (b \div 16), (b % 16) * 16 + (c \div 4),
                             (c % 4) * 64 + B64Val(str[4])>>
                           \o Base64Decode(SubSeq(str, 5, Len(str)))

-----------------------------------------------------------------------------
(* archive/zip. An archive is the sequence of its entries; its bytes are   *)
(* the entries one after the other, each as name length, name, method,     *)
(* data length, data (names and files of the model are shorter than 256).  *)

ZipEntry(name, method, data) == [name |-> name, method |-> method, data |-> data]

MethodCode(m) == IF m = "store" THEN 0 ELSE 8
MethodOf(c) == IF c = 0 THEN "store" ELSE "deflate"

RECURSIVE ZipBytes(_)
ZipBytes(entries) ==
    IF Len(entries) = 0 THEN <<>>
    ELSE LET e == entries[1]
         IN  <<Len(e.name)>> \o Bytes(e.name) \o <<MethodCode(e.method), Len(e.data)>>
                \o e.data \o ZipBytes(Tail(entries))

\* zip.NewReader: the entries of an archive
RECURSIVE ZipRead(_)
ZipRead(bs) ==
    IF Len(bs) = 0 THEN <<>>
    ELSE LET n == bs[1]
             m == bs[n + 3]
         IN  <<ZipEntry(Chars(SubSeq(bs, 2, n + 1)), MethodOf(bs[n + 2]),
                        SubSeq(bs, n + 4, n + 3 + m))>>
                \o ZipRead(SubSeq(bs, n + 4 + m, Len(bs)))

\* the regular files met by a walk
WalkFiles(f, walk) == { i \in 1..Len(walk) : ~IsDir(f, walk[i]) }

RECURSIVE SumSizes(_, _)
SumSizes(f, walk) ==
    IF Len(walk) = 0 THEN 0
    ELSE (IF IsDir(f, walk[1]) THEN 0 ELSE Len(f[walk[1]].data))
            + SumSizes(f, Tail(walk))

GetFolderSize(f, path) == SumSizes(f, WalkList(f, path))

CountFiles(f, path) == Cardinality(WalkFiles(f, WalkList(f, path)))

\* the entry ZipFolderWithProgress writes for a walked path (not the root)
ZipEntryFor(f, root, path) ==
    IF IsDir(f, path)
    THEN ZipEntry(Rel(root, path) \o <<"/">>, "store", <<>>)
    ELSE ZipEntry(Rel(root, path), "deflate", f[path].data)

ZipFolderTopLevel(f, sourcePath, fault) ==
    LET root == Clean(sourcePath)
        walk == SortByName(Children(f, root))
    IN  IF ~Exists(f, root) THEN Fail("source path error")
        ELSE IF ~IsDir(f, root) THEN Fail("source path is not a directory")
        ELSE IF fault THEN Fail("failed to walk directory")
        ELSE Ok(ZipBytes([i \in 1..Len(walk) |-> ZipEntryFor(f, root, walk[i])]))

\* ZipFolder; fault: the walk meets an I/O error
ZipFolder(f, sourcePath, fault) ==
    LET root == Clean(sourcePath)
        walk == WalkList(f, root)
    IN  IF ~Exists(f, root) THEN Fail("source path error")
        ELSE IF ~IsDir(f, root) THEN Fail("source path is not a directory")
        ELSE IF fault THEN Fail("failed to walk directory")
        ELSE Ok(ZipBytes([i \in 1..(Len(walk) - 1) |-> ZipEntryFor(f, root, walk[i + 1])]))

\* CreateIntunewinPackage: the two Store entries of the outer archive
ContentsName == "IntuneWinPackage/Contents/IntunePackage.intunewin"
MetadataName == "IntuneWinPackage/Metadata/Detection.xml"

OuterEntry(name, now, data) ==
    [name |-> name, method |-> "store", modified |-> now, data |-> data]

CreateIntunewinPackageWithDirs(encryptedContent, detectionXML, now) ==
    <<OuterEntry("IntuneWinPackage/", now, <<>>),
      OuterEntry(ContentsName, now, encryptedContent),
      OuterEntry(MetadataName, now, detectionXML)>>

CreateIntunewinPackage(encryptedContent, detectionXML, now) ==
    <<OuterEntry(ContentsName, now, encryptedContent),
      OuterEntry(MetadataName, now, detectionXML)>>

-----------------------------------------------------------------------------
(* MSI metadata, as far as the orchestrator uses it *)

IsMsiFile(path) == HasSuffix(ToLower(path), S.dot_msi)

MsiRecord(isNil, code, version, package, publisher, upgrade, product) ==
    [nil |-> isNil, ProductCode |-> code, ProductVersion |-> version,
     PackageCode |-> package, Publisher |-> publisher, UpgradeCode |-> upgrade,
     ProductName |-> product]

NilMsi == MsiRecord(TRUE, <<>>, <<>>, <<>>, <<>>, <<>>, <<>>)

\* results of the extractor on a compound file: nothing found, the codes
\* without a product name, everything
MsiResults ==
    { MsiRecord(FALSE, <<>>, <<>>, <<>>, <<>>, <<>>, <<>>),
      MsiRecord(FALSE, S.guid1, S.version, S.guid1, <<>>, <<>>, <<>>),
      MsiRecord(FALSE, S.guid1, S.version, S.guid1, S.publisher, S.guid1, S.product) }

\* mscfb.New accepts a file that begins with the compound-file signature
IsCompoundFile(data) == Len(data) >= 2 /\ data[1] = 208 /\ data[2] = 207

\* isValidGUID: {XXXXXXXX-XXXX-XXXX-XXXX-XXXXXXXXXXXX}, X a hex digit
isValidGUID(str) ==
    LET hexChars == {"0", "1", "2", "3", "4", "5", "6", "7", "8", "9",
                     "A", "B", "C", "D", "E", "F", "a", "b", "c", "d", "e", "f"}
        dashes == {10, 15, 20, 25}
    IN  /\ Len(str) = 38
        /\ str[1] = "{"
        /\ str[38] = "}"
        /\ \A i \in dashes : str[i] = "-"
        /\ \A i \in (2..37) \ dashes : str[i] \in hexChars

\* decompressMSIGUID as its comment describes it: groups 4 and 5 unchanged
decompressMSIGUIDFirstThree(compressed) ==
    LET clean == SelectSeq(compressed, LAMBDA c : c \notin {"{", "}", "-"})
        swapped == [i \in 1..32 |-> IF i > 16 THEN clean[i]
                                     ELSE IF i % 2 = 1 THEN clean[i + 1] ELSE clean[i - 1]]
        guid == <<"{">> \o SubSeq(swapped, 1, 8) \o <<"-">> \o SubSeq(swapped, 9, 12)
                 \o <<"-">> \o SubSeq(swapped, 13, 16) \o <<"-">> \o SubSeq(swapped, 17, 20)
                 \o <<"-">> \o SubSeq(swapped, 21, 32) \o <<"}">>
    IN  IF Len(clean) # 32 THEN <<>>
        ELSE IF isValidGUID(guid) THEN guid
        ELSE <<>>

\* decompressMSIGUID: braces and dashes are removed, the characters of every
\* pair are swapped, the result is formatted as a GUID
decompressMSIGUID(compressed) ==
    LET clean == SelectSeq(compressed, LAMBDA c : c \notin {"{", "}", "-"})
        swapped == [i \in 1..32 |-> IF i % 2 = 1 THEN clean[i + 1] ELSE clean[i - 1]]
        guid == <<"{">> \o SubSeq(swapped, 1, 8) \o <<"-">> \o SubSeq(swapped, 9, 12)
                 \o <<"-">> \o SubSeq(swapped, 13, 16) \o <<"-">> \o SubSeq(swapped, 17, 20)
                 \o <<"-">> \o SubSeq(swapped, 21, 32) \o <<"}">>
    IN  IF Len(clean) # 32 THEN <<>>
        ELSE IF isValidGUID(guid) THEN guid
        ELSE <<>>

\* extractPackageCodeFromOLEPS on a Summary Information stream: present says
\* whether the property set has PIDSI_REVNUMBER, str is its value, fallback is
\* what the scans of the raw bytes find
extractPackageCodeFromOLEPS(present, str, fallback) ==
    IF present /\ decompressMSIGUID(str) # <<>> THEN decompressMSIGUID(str)
    ELSE IF present /\ isValidGUID(str) THEN str
    ELSE fallback


-----------------------------------------------------------------------------
(* The MSI extractor (msi.go). The bytes of a file are one-character       *)
(* strings; "NUL" is the byte 0, the only byte of the model below 32.      *)

\* the index a loop that returns at its first match stops at
Least(hits) == CHOOSE i \in hits : \A j \in hits : i <= j

\* bytes.Equal(data[i:i+len(pat)], pat), i counted from 1
Match(data, i, pat) ==
    /\ i + Len(pat) - 1 <= Len(data)
    /\ SubSeq(data, i, i + Len(pat) - 1) = pat

\* strings.TrimSpace
TrimSpace(str) ==
    LET inked == {i \in 1..Len(str) : str[i] # " "}
    IN  IF inked = {} THEN <<>>
        ELSE SubSeq(str, Least(inked), CHOOSE i \in inked : \A j \in inked : j <= i)

\* isValidVersion
isValidVersion(s) ==
    LET digit == {"0", "1", "2", "3", "4", "5", "6", "7", "8", "9"}
        dotCount == Cardinality({i \in 1..Len(s) : s[i] = "."})
    IN  /\ Len(s) >= 3
        /\ Len(s) <= 32
        /\ \E i \in 1..Len(s) : s[i] = "."
        /\ s[1] \in digit
        /\ s[Len(s)] \in digit
        /\ dotCount >= 1
        /\ dotCount <= 3

\* isValidProductName
isValidProductName(s) ==
    LET lower == ToLower(s)
        invalidPatterns ==
            { <<"s", "e", "t", "u", "p", " ", "w", "i", "z", "a", "r", "d">>,
              <<"a", "l", "l", "o", "w", "s", " ", "y", "o", "u">>,
              <<"t", "h", "e", " ", "w", "a", "y">>,
              <<"c", "h", "a", "n", "g", "e", " ", "t", "h", "e">>,
              <<"i", "s", " ", "i", "n", "s", "t", "a", "l", "l", "e", "d">>,
              <<"c", "l", "i", "c", "k", " ", "n", "e", "x", "t">>,
              <<"c", "l", "i", "c", "k", " ", "b", "a", "c", "k">>,
              <<"t", "o", " ", "c", "o", "n", "t", "i", "n", "u", "e">>,
              <<"w", "i", "l", "l", " ", "b", "e", " ", "i", "n", "s", "t", "a", "l", "l", "e", "d">>,
              <<"i", "n", "s", "t", "a", "l", "l", "a", "t", "i", "o", "n">>,
              <<"c", "o", "m", "p", "l", "e", "t", "i", "n", "g", " ", "t", "h", "e">>,
              <<"w", "e", "l", "c", "o", "m", "e", " ", "t", "o">>,
              <<"p", "l", "e", "a", "s", "e", " ", "w", "a", "i", "t">> }
    IN  /\ Len(s) >= 2
        /\ Len(s) <= 100
        /\ s[1] \notin {"]", "[", ")", "("}
        /\ s[Len(s)] \notin {"[", "]"}
        /\ \A pattern \in invalidPatterns :
               \A i \in 1..Len(lower) : ~Match(lower, i, pattern)

\* extractGUIDAt without the test of the shape
extractGUIDAtUnchecked(data, pos) ==
    IF pos + 37 > Len(data) THEN <<>>
    ELSE SubSeq(data, pos, pos + 37)

\* extractGUIDAt, pos counted from 1
extractGUIDAt(data, pos) ==
    IF pos + 37 > Len(data) THEN <<>>
    ELSE IF isValidGUID(SubSeq(data, pos, pos + 37)) THEN SubSeq(data, pos, pos + 37)
    ELSE <<>>

\* findFirstGUIDInData: the loop ends before the last 38 bytes
findFirstGUIDInData(data) ==
    LET hits == {i \in 1..(Len(data) - 38) :
                     data[i] = "{" /\ extractGUIDAt(data, i) # <<>>}
    IN  IF hits = {} THEN <<>> ELSE extractGUIDAt(data, Least(hits))

\* findCompressedGUID
findCompressedGUID(data) ==
    LET hex == {"0", "1", "2", "3", "4", "5", "6", "7", "8", "9",
                "A", "B", "C", "D", "E", "F", "a", "b", "c", "d", "e", "f"}
        isAllHex(s) == \A k \in 1..Len(s) : s[k] \in hex
        hits == {i \in 1..(Len(data) - 32) :
                     /\ data[i] \in hex
                     /\ isAllHex(SubSeq(data, i, i + 31))
                     /\ decompressMSIGUID(SubSeq(data, i, i + 31)) # <<>>}
    IN  IF hits = {} THEN <<>>
        ELSE decompressMSIGUID(SubSeq(data, Least(hits), Least(hits) + 31))

\* stringToUTF16LE on ASCII: every character followed by the byte 0
stringToUTF16LE(s) ==
    [i \in 1..(2 * Len(s)) |-> IF i % 2 = 1 THEN s[(i + 1) \div 2] ELSE "NUL"]

\* binary.LittleEndian.Uint16(data[i:]): the character when the high byte
\* is 0, a code unit above 255 ("wide") otherwise
Uint16(data, i) == IF data[i + 1] = "NUL" THEN data[i] ELSE "wide"

\* the code units of data[i:], read two bytes at a time
Units(data, i) ==
    [k \in 1..((Len(data) - i + 1) \div 2) |-> Uint16(data, i + 2 * (k - 1))]

\* the loops that collect characters while they are of a kind (a set of
\* characters), up to cap
TakeWhile(seq, kind, cap) ==
    LET lim == Min(cap, Len(seq))
        stops == {k \in 1..lim : seq[k] \notin kind}
    IN  SubSeq(seq, 1, IF stops = {} THEN lim ELSE Least(stops) - 1)

\* extractUTF16StringClean: leading zeros and non-printable units are
\* skipped, then printable units are collected
extractUTF16StringClean(units) ==
    LET printable == DOMAIN AsciiCode
        starts == {k \in 1..Len(units) : units[k] \in printable}
    IN  IF starts = {} THEN <<>>
        ELSE TrimSpace(TakeWhile(SubSeq(units, Least(starts), Len(units)), printable, 128))

\* extractManufacturerAfterPosition, pos counted from 1
extractManufacturerAfterPosition(data, pos) ==
    LET knownProperties == {S.ProductCode, S.ProductLanguage, S.ProductName,
                            S.ProductVersion, S.UpgradeCode, S.SecureCustomProperties}
        maxLen == Min(pos + 255, Len(data))
        stops == {i \in pos..maxLen :
                      \/ \E prop \in knownProperties : Match(data, i, prop)
                      \/ data[i] \notin DOMAIN AsciiCode}
        result == SubSeq(data, pos, IF stops = {} THEN maxLen ELSE Least(stops) - 1)
        str == TrimSpace(result)
    IN  IF pos > Len(data) THEN <<>>
        ELSE IF Len(str) >= 2 /\ Len(str) <= 128
                /\ ~isValidGUID(str) /\ ~isValidVersion(str) /\ isValidProductName(str)
             THEN str
        ELSE <<>>

\* extractPropertyValueASCII for the five names ExtractMsiInfo asks for. The
\* two codes return at the first occurrence of the name, the other names go
\* on to the next occurrence when the value is rejected.
extractPropertyValueASCII(data, propertyName) ==
    LET digit == {"0", "1", "2", "3", "4", "5", "6", "7", "8", "9"}
        propLen == Len(propertyName)
        hits == {i \in 1..(Len(data) - propLen + 1) : Match(data, i, propertyName)}
        extractGUIDAfterPosition(pos) ==
            LET found == {i \in pos..Min(pos + 63, Len(data)) :
                              data[i] = "{" /\ extractGUIDAt(data, i) # <<>>}
            IN  IF found = {} THEN <<>> ELSE extractGUIDAt(data, Least(found))
        extractVersionAfterPositionStrict(pos) ==
            LET version == TakeWhile(SubSeq(data, pos, Len(data)),
                                     digit \cup {"."}, 32)
                v == IF Len(version) > 0 /\ version[Len(version)] = "."
                     THEN SubSeq(version, 1, Len(version) - 1) ELSE version
            IN  IF pos > Len(data) THEN <<>>
                ELSE IF data[pos] \notin digit THEN <<>>
                ELSE IF isValidVersion(v) THEN v
                ELSE <<>>
        value(i) ==
            IF propertyName \in {S.ProductCode, S.UpgradeCode}
            THEN extractGUIDAfterPosition(i + propLen)
            ELSE IF propertyName = S.ProductVersion
            THEN extractVersionAfterPositionStrict(i + propLen)
            ELSE extractManufacturerAfterPosition(data, i + propLen)
        returns == IF propertyName \in {S.ProductCode, S.UpgradeCode} THEN hits
                   ELSE {i \in hits : value(i) # <<>>}
    IN  IF returns = {} THEN <<>> ELSE value(Least(returns))

\* extractPropertyValueUTF16: the value after the first occurrence of the
\* name in UTF-16LE
extractPropertyValueUTF16(data, propertyName) ==
    LET digit == {"0", "1", "2", "3", "4", "5", "6", "7", "8", "9"}
        propBytes == stringToUTF16LE(propertyName)
        propLen == Len(propBytes)
        hits == {i \in 1..(Len(data) - propLen + 1) : Match(data, i, propBytes)}
        scan(pos, span) ==
            {i \in pos..(Min(pos - 1 + span, Len(data)) - 1) : (i - pos) % 2 = 0}
        letter(c) == /\ c \in DOMAIN AsciiCode
                     /\ \/ AsciiCode[c] \in 65..90
                        \/ AsciiCode[c] \in 97..122
        extractUTF16GUID(i) ==
            LET units == Units(data, i)
            IN  TakeWhile(units, {units[k] : k \in DOMAIN units} \ {"NUL"}, 38)
        extractUTF16Version(i) ==
            TakeWhile(Units(data, i), digit \cup {"."}, 32)
        string(i) == extractUTF16StringClean(Units(data, i))
        extractGUIDAfterPositionUTF16(pos) ==
            LET found == {i \in scan(pos, 128) :
                              /\ Uint16(data, i) = "{"
                              /\ isValidGUID(extractUTF16GUID(i))}
            IN  IF found = {} THEN <<>> ELSE extractUTF16GUID(Least(found))
        extractVersionAfterPositionUTF16(pos) ==
            LET found == {i \in scan(pos, 64) :
                              /\ Uint16(data, i) \in digit
                              /\ isValidVersion(extractUTF16Version(i))}
            IN  IF found = {} THEN <<>> ELSE extractUTF16Version(Least(found))
        extractStringAfterPositionUTF16(pos) ==
            LET found == {i \in scan(pos, 512) :
                              /\ letter(Uint16(data, i))
                              /\ Len(string(i)) >= 2
                              /\ Len(string(i)) <= 128
                              /\ ~isValidGUID(string(i))
                              /\ ~isValidVersion(string(i))}
            IN  IF found = {} THEN <<>> ELSE string(Least(found))
        valueStart == Least(hits) + propLen
    IN  IF hits = {} THEN <<>>
        ELSE IF propertyName \in {S.ProductCode, S.UpgradeCode}
        THEN extractGUIDAfterPositionUTF16(valueStart)
        ELSE IF propertyName = S.ProductVersion
        THEN extractVersionAfterPositionUTF16(valueStart)
        ELSE extractStringAfterPositionUTF16(valueStart)

\* extractMsiPropertyValue: ASCII first, UTF-16LE when that found nothing
extractMsiPropertyValue(data, propertyName) ==
    LET orElse(value, other) == IF value # <<>> THEN value ELSE other
    IN  orElse(extractPropertyValueASCII(data, propertyName),
               extractPropertyValueUTF16(data, propertyName))

\* findInStringPool: the first string of the pool the predicate accepts; the
\* predicate is the set of the strings it accepts
findInStringPool(pool, predicate) ==
    LET hits == {i \in 1..Len(pool) : pool[i] \in predicate}
    IN  IF hits = {} THEN <<>> ELSE pool[Least(hits)]

\* findPublisherInStringPool
findPublisherInStringPool(pool) ==
    LET named(s) ==
            /\ Len(s) >= 3
            /\ Len(s) <= 100
            /\ ~(isValidGUID(s) \/ isValidVersion(s))
            /\ \E i \in 1..Len(s) : s[i] = " "
            /\ s[1] # "{"
            /\ s[1] \in DOMAIN AsciiCode
            /\ AsciiCode[s[1]] \in 65..90
    IN  findInStringPool(pool, {pool[i] : i \in {k \in DOMAIN pool : named(pool[k])}})

\* what extractStringNearProperty does when it slices beyond the data
SliceOutOfRange == <<"panic: runtime error: slice bounds out of range">>

\* extractGUIDNearProperty, extractVersionNearProperty and
\* extractStringNearProperty, chosen by the kind of value that is looked
\* for: "guid", "version" or "string"
extractNearProperty(data, propertyName, kind) ==
    LET digit == {"0", "1", "2", "3", "4", "5", "6", "7", "8", "9"}
        propBytes == stringToUTF16LE(propertyName)
        hits(pat) == {i \in 1..(Len(data) - Len(pat)) : Match(data, i, pat)}
        \* the GUIDs within span bytes after an occurrence of pat at i
        guids(i, pat, span) ==
            {j \in (i + Len(pat))..(Min(i - 1 + Len(pat) + span, Len(data)) - 38) :
                 data[j] = "{" /\ extractGUIDAt(data, j) # <<>>}
        guidAfter(pat, span) ==
            LET found == {i \in hits(pat) : guids(i, pat, span) # {}}
            IN  IF found = {} THEN <<>>
                ELSE extractGUIDAt(data, Least(guids(Least(found), pat, span)))
        extractUTF16Version(j) ==
            TakeWhile(Units(data, j), digit \cup {"."}, 32)
        versions(i) ==
            LET searchStart == i + Len(propBytes)
            IN  {j \in searchStart..(Min(searchStart - 1 + 512, Len(data)) - 10) :
                     /\ (j - searchStart) % 2 = 0
                     /\ j + 1 <= Len(data)
                     /\ Uint16(data, j) \in digit
                     /\ isValidVersion(extractUTF16Version(j))}
        \* the offsets 0, 2, .. 62 after an occurrence at i: those whose
        \* string is returned, and those where data[searchStart+offset:] is
        \* out of range
        string(j) == extractUTF16StringClean(Units(data, j))
        offsets == {k \in 0..62 : k % 2 = 0}
        beyond(i) == {k \in offsets : i + Len(propBytes) + k > Len(data) + 1}
        strings(i) ==
            {k \in offsets \ beyond(i) :
                 LET str == string(i + Len(propBytes) + k)
                 IN  /\ Len(str) >= 3
                     /\ Len(str) <= 128
                     /\ ~isValidGUID(str)
                     /\ ~isValidVersion(str)}
        ends(i) == strings(i) \cup beyond(i)
        extractGUIDNearProperty ==
            IF guidAfter(propBytes, 2048) # <<>> THEN guidAfter(propBytes, 2048)
            ELSE guidAfter(propertyName, 1024)
        extractVersionNearProperty ==
            LET found == {i \in hits(propBytes) : versions(i) # {}}
            IN  IF found = {} THEN <<>>
                ELSE extractUTF16Version(Least(versions(Least(found))))
        extractStringNearProperty ==
            LET found == {i \in hits(propBytes) : ends(i) # {}}
                i == Least(found)
            IN  IF found = {} THEN <<>>
                ELSE IF Least(ends(i)) \in beyond(i) THEN SliceOutOfRange
                ELSE string(i + Len(propBytes) + Least(ends(i)))
    IN  IF kind = "guid" THEN extractGUIDNearProperty
        ELSE IF kind = "version" THEN extractVersionNearProperty
        ELSE extractStringNearProperty

\* one step of the cascade, a layer that always writes
LayerOverwrites(cur, on, name, val) ==
    [value |-> IF on THEN val ELSE cur.value,
     ran |-> IF on THEN Append(cur.ran, name) ELSE cur.ran]

\* one step of the cascade: "if info.X == "" { info.X = layer(...) }", with
\* the list of the layers that ran for the property
Layer(cur, on, name, val) ==
    [value |-> IF on /\ cur.value = <<>> THEN val ELSE cur.value,
     ran |-> IF on /\ cur.value = <<>> THEN Append(cur.ran, name) ELSE cur.ran]

\* ExtractMsiInfo on a compound file: hasSummary, present, str and sdata
\* describe the Summary Information stream (whether it exists, whether it has
\* PIDSI_REVNUMBER and its value, the bytes of the stream), pool is the decoded
\* string pool, raw the bytes of the whole file
ExtractMsiInfo(file) ==
    LET rawData == file.raw
        stringPool == file.pool
        inPool == Len(stringPool) > 0
        direct(name) == [value |-> extractMsiPropertyValue(rawData, name),
                         ran |-> <<"direct">>]
        olepsFallback ==
            IF findFirstGUIDInData(file.sdata) # <<>> THEN findFirstGUIDInData(file.sdata)
            ELSE findCompressedGUID(file.sdata)
        summary ==
            IF file.hasSummary
            THEN [value |-> extractPackageCodeFromOLEPS(file.present, file.str, olepsFallback),
                  ran |-> <<"oleps">>]
            ELSE [value |-> <<>>, ran |-> <<>>]
        codePool == Layer(direct(S.ProductCode), inPool, "pool",
                          findInStringPool(stringPool, {stringPool[i] : i \in {k \in DOMAIN stringPool : isValidGUID(stringPool[k])}}))
        versionPool == Layer(direct(S.ProductVersion), inPool, "pool",
                             findInStringPool(stringPool, {stringPool[i] : i \in {k \in DOMAIN stringPool : isValidVersion(stringPool[k])}}))
        publisherPool == Layer(direct(S.Manufacturer), inPool, "pool",
                               findPublisherInStringPool(stringPool))
        upgradePool == Layer(direct(S.UpgradeCode), inPool, "pool",
                             findInStringPool(stringPool,
                                 {stringPool[i] : i \in {k \in DOMAIN stringPool :
                                     /\ isValidGUID(stringPool[k])
                                     /\ stringPool[k] # codePool.value}}))
        code == Layer(codePool, TRUE, "near",
                      extractNearProperty(rawData, S.ProductCode, "guid"))
        version == Layer(versionPool, TRUE, "near",
                         extractNearProperty(rawData, S.ProductVersion, "version"))
        publisher == Layer(publisherPool, TRUE, "near",
                           extractNearProperty(rawData, S.Manufacturer, "string"))
        upgrade == Layer(upgradePool, TRUE, "near",
                         extractNearProperty(rawData, S.UpgradeCode, "guid"))
        package == Layer(summary, TRUE, "any", findFirstGUIDInData(rawData))
        product == direct(S.ProductName)
        \* what is returned, or the panic of extractStringNearProperty, after
        \* which the layers behind it have not run
        return(c, v, p, u, up, pkg, sm, pr) ==
            IF p.value = SliceOutOfRange
            THEN [err |-> SliceOutOfRange[1], info |-> NilMsi,
                  ran |-> [ProductCode |-> c.ran, ProductVersion |-> v.ran,
                           Publisher |-> p.ran, UpgradeCode |-> up.ran,
                           PackageCode |-> sm.ran]]
            ELSE [err |-> "",
                  info |-> MsiRecord(FALSE, c.value, v.value, pkg.value, p.value,
                                     u.value, pr.value),
                  ran |-> [ProductCode |-> c.ran, ProductVersion |-> v.ran,
                           Publisher |-> p.ran, UpgradeCode |-> u.ran,
                           PackageCode |-> pkg.ran]]
    IN  return(code, version, publisher, upgrade, upgradePool, package, summary, product)

-----------------------------------------------------------------------------
(* Descriptor serializer (metadata.go) *)

RECURSIVE StripFirst(_, _)
StripFirst(name, exts) ==
    IF Len(exts) = 0 THEN name
    ELSE IF Len(name) > Len(exts[1]) /\ HasSuffix(name, exts[1])
         THEN SubSeq(name, 1, Len(name) - Len(exts[1]))
         ELSE StripFirst(name, Tail(exts))

GetApplicationName(setupFile) ==
    StripFirst(setupFile, <<S.dot_msi, S.dot_exe, S.dot_MSI, S.dot_EXE>>)

EncryptionInfo(encKey, macKey, iv, mac, fileDigest) ==
    [EncryptionKey |-> encKey, MacKey |-> macKey, InitializationVector |-> iv,
     Mac |-> mac, FileDigest |-> fileDigest]

MetadataParams(name, setupFile, size, encInfo, msiInfo) ==
    [Name |-> name, SetupFile |-> setupFile, UnencryptedContentSize |-> size,
     EncryptionInfo |-> encInfo, MsiInfo |-> msiInfo]

MsiInfoXML(m) ==
    [MsiProductCode |-> m.ProductCode,
     MsiProductVersion |-> m.ProductVersion,
     MsiPackageCode |-> m.PackageCode,
     MsiUpgradeCode |-> m.UpgradeCode,
     MsiExecutionContext |-> "Any",
     MsiRequiresLogon |-> FALSE,
     MsiRequiresReboot |-> FALSE,
     MsiIsMachineInstall |-> TRUE,
     MsiIsUserInstall |-> FALSE,
     MsiIncludesServices |-> FALSE,
     MsiIncludesODBCDataSource |-> FALSE,
     MsiContainsSystemRegistryKeys |-> FALSE,
     MsiContainsSystemFolders |-> FALSE,
     MsiPublisher |-> m.Publisher]

\* the ApplicationInfo value GenerateDetectionXML builds; hasMsiInfo is FALSE
\* when the MsiInfo pointer is nil
ApplicationInfo(params) ==
    [XSD |-> "http://www.w3.org/2001/XMLSchema",
     XSI |-> "http://www.w3.org/2001/XMLSchema-instance",
     ToolVersion |-> "1.8.6.0",
     Name |-> IF ~params.MsiInfo.nil /\ params.MsiInfo.ProductName # <<>>
              THEN params.MsiInfo.ProductName ELSE params.Name,
     UnencryptedContentSize |-> params.UnencryptedContentSize,
     FileName |-> "IntunePackage.intunewin",
     SetupFile |-> params.SetupFile,
     EncryptionInfo |->
        [EncryptionKey |-> Base64Encode(params.EncryptionInfo.EncryptionKey),
         MacKey |-> Base64Encode(params.EncryptionInfo.MacKey),
         InitializationVector |-> Base64Encode(params.EncryptionInfo.InitializationVector),
         Mac |-> Base64Encode(params.EncryptionInfo.Mac),
         ProfileIdentifier |-> "ProfileVersion1",
         FileDigest |-> Base64Encode(params.EncryptionInfo.FileDigest),
         FileDigestAlgorithm |-> "SHA256"],
     hasMsiInfo |-> ~params.MsiInfo.nil,
     MsiInfo |-> MsiInfoXML(params.MsiInfo)]

MarshalIndentSizeFirst(a) ==
    LET el(name, v) == <<[kind |-> "elem", name |-> name, value |-> v]>>
        enc == a.EncryptionInfo
    IN  <<[kind |-> "open", name |-> "ApplicationInfo",
           value |-> <<<<"xmlns:xsd", a.XSD>>, <<"xmlns:xsi", a.XSI>>,
                       <<"ToolVersion", a.ToolVersion>>>>]>>
        \o el("UnencryptedContentSize", a.UnencryptedContentSize)
        \o el("Name", a.Name)
        \o el("FileName", a.FileName)
        \o el("SetupFile", a.SetupFile)
        \o <<[kind |-> "open", name |-> "EncryptionInfo", value |-> <<>>]>>
        \o el("EncryptionKey", enc.EncryptionKey)
        \o el("MacKey", enc.MacKey)
        \o el("InitializationVector", enc.InitializationVector)
        \o el("Mac", enc.Mac)
        \o el("ProfileIdentifier", enc.ProfileIdentifier)
        \o el("FileDigest", enc.FileDigest)
        \o el("FileDigestAlgorithm", enc.FileDigestAlgorithm)
        \o <<[kind |-> "close", name |-> "EncryptionInfo", value |-> <<>>]>>
        \o <<[kind |-> "close", name |-> "ApplicationInfo", value |-> <<>>]>>

\* xml.MarshalIndent of an ApplicationInfo, as the sequence of its tags: the
\* fields in the order of the struct, no XML declaration; a nil pointer and
\* an empty string tagged omitempty are left out (MsiExecutionContext is
\* never empty)
MarshalIndent(a) ==
    LET el(name, v) == <<[kind |-> "elem", name |-> name, value |-> v]>>
        opt(name, v) == IF v = <<>> THEN <<>> ELSE el(name, v)
        enc == a.EncryptionInfo
        m == a.MsiInfo
    IN  <<[kind |-> "open", name |-> "ApplicationInfo",
           value |-> <<<<"xmlns:xsd", a.XSD>>, <<"xmlns:xsi", a.XSI>>,
                       <<"ToolVersion", a.ToolVersion>>>>]>>
        \o el("Name", a.Name)
        \o el("UnencryptedContentSize", a.UnencryptedContentSize)
        \o el("FileName", a.FileName)
        \o el("SetupFile", a.SetupFile)
        \o <<[kind |-> "open", name |-> "EncryptionInfo", value |-> <<>>]>>
        \o el("EncryptionKey", enc.EncryptionKey)
        \o el("MacKey", enc.MacKey)
        \o el("InitializationVector", enc.InitializationVector)
        \o el("Mac", enc.Mac)
        \o el("ProfileIdentifier", enc.ProfileIdentifier)
        \o el("FileDigest", enc.FileDigest)
        \o el("FileDigestAlgorithm", enc.FileDigestAlgorithm)
        \o <<[kind |-> "close", name |-> "EncryptionInfo", value |-> <<>>]>>
        \o (IF ~a.hasMsiInfo THEN <<>>
            ELSE <<[kind |-> "open", name |-> "MsiInfo", value |-> <<>>]>>
                 \o opt("MsiProductCode", m.MsiProductCode)
                 \o opt("MsiProductVersion", m.MsiProductVersion)
                 \o opt("MsiPackageCode", m.MsiPackageCode)
                 \o opt("MsiUpgradeCode", m.MsiUpgradeCode)
                 \o el("MsiExecutionContext", m.MsiExecutionContext)
                 \o el("MsiRequiresLogon", m.MsiRequiresLogon)
                 \o el("MsiRequiresReboot", m.MsiRequiresReboot)
                 \o el("MsiIsMachineInstall", m.MsiIsMachineInstall)
                 \o el("MsiIsUserInstall", m.MsiIsUserInstall)
                 \o el("MsiIncludesServices", m.MsiIncludesServices)
                 \o el("MsiIncludesODBCDataSource", m.MsiIncludesODBCDataSource)
                 \o el("MsiContainsSystemRegistryKeys", m.MsiContainsSystemRegistryKeys)
                 \o el("MsiContainsSystemFolders", m.MsiContainsSystemFolders)
                 \o opt("MsiPublisher", m.MsiPublisher)
                 \o <<[kind |-> "close", name |-> "MsiInfo", value |-> <<>>]>>)
        \o <<[kind |-> "close", name |-> "ApplicationInfo", value |-> <<>>]>>

\* the descriptor: the ApplicationInfo value and, in xml, what it is
\* marshalled to
GenerateDetectionXML(params) ==
    [xml |-> MarshalIndent(ApplicationInfo(params))] @@ ApplicationInfo(params)

-----------------------------------------------------------------------------
(* CreateEncryptionInfo (encryption.go) *)

\* the queries CreateEncryptionInfo makes, in the order it makes them
EncryptionQueries(plaintext, encKey, macKey, iv) ==
    <<ShaQuery(plaintext), HmacQuery(macKey, EncryptMacInput(plaintext, encKey, iv))>>

CreateEncryptionInfoMacFromIV(orc, plaintext, encKey, macKey, iv) ==
    LET fileDigest == Sha256(orc, plaintext)
        orc1 == OracleAsk(orc, ShaQuery(plaintext))
        encrypted == EncryptContent(orc1, plaintext, encKey, macKey, iv)
    IN  [err |-> IF encrypted.err = "" THEN "" ELSE "failed to encrypt content",
         info |-> EncryptionInfo(encKey, macKey, iv,
                     SubSeq(encrypted.data, Min(MacSize + 1, Len(encrypted.data) + 1),
                            Min(2 * MacSize, Len(encrypted.data))), fileDigest),
         encrypted |-> encrypted.data]

\* with the keys GenerateKeys drew
CreateEncryptionInfo(orc, plaintext, encKey, macKey, iv) ==
    LET fileDigest == Sha256(orc, plaintext)
        orc1 == OracleAsk(orc, ShaQuery(plaintext))
        encrypted == EncryptContent(orc1, plaintext, encKey, macKey, iv)
    IN  [err |-> IF encrypted.err = "" THEN "" ELSE "failed to encrypt content",
         info |-> EncryptionInfo(encKey, macKey, iv,
                     SubSeq(encrypted.data, 1, Min(MacSize, Len(encrypted.data))),
                     fileDigest),
         encrypted |-> encrypted.data]

-----------------------------------------------------------------------------
(* The harness of the crypto primitives: the inputs are drawn from bounded *)
(* sets, the actions apply the functions.                                  *)

FillBytes == {171}
LastBytes == {0, 1, 16}
KeyBytes == {0, 201}
IvBytes == {0, 77}
UnpadBytes == {0, 1, 2, 16, 17, 255}
TamperMasks == {1, 2, 4, 8, 16, 32, 64, 128, 129, 255}

PlainOf(n, b, c) == [i \in 1..n |-> IF i = n THEN c ELSE b]

PlainInputs == { PlainOf(n, b, c) : n \in 0..MaxPlainLen, b \in FillBytes, c \in LastBytes }

\* length n, filled with b, last byte p, the byte 9 at position k (k = 0: nowhere)
UnpadOf(n, b, p, k) ==
    [i \in 1..n |-> IF i = k THEN 9 ELSE IF i = n THEN p ELSE b]

UnpadInputs ==
    { UnpadOf(n, b, p, k) :
        n \in 0..MaxUnpadLen, b \in UnpadBytes, p \in UnpadBytes,
        k \in {0, 1, MaxUnpadLen - 2, MaxUnpadLen - 1, MaxUnpadLen} }

cvars == <<cpc, cin, blob, recv, dec, unpadIn, unpadOut, ole, xm, tui>>
pvars == <<pc, args, fs, progressLog, stageLog, ret, zw, pk>>
vars == <<cpc, cin, blob, recv, dec, unpadIn, unpadOut, oracle, ole, xm, tui,
          pc, args, fs, progressLog, stageLog, ret, zw, pk>>

PackageResult(outputPath, sourceSize, zipSize, encryptedSize, fileCount) ==
    [OutputPath |-> outputPath, SourceSize |-> sourceSize, ZipSize |-> zipSize,
     EncryptedSize |-> encryptedSize, FileCount |-> fileCount]

\* the values of the variables and locals before anything was called or
\* assigned: the results of DecryptContent and PKCS7Unpad, the arguments of
\* EncryptContent, the locals and results of Package, the two MSI harnesses
No ==
    LET EncInfo == EncryptionInfo(<<>>, <<>>, <<>>, <<>>, <<>>)
        Doc == GenerateDetectionXML(MetadataParams(<<>>, <<>>, 0, EncInfo, NilMsi))
        Result == PackageResult(<<>>, 0, 0, 0, 0)
    IN  [Result |-> [err |-> "none", data |-> <<>>, stage |-> "none"],
         Unpad |-> [err |-> "none", data |-> <<>>],
         Cin |-> [plaintext |-> <<>>, encKey |-> <<>>, macKey |-> <<>>, iv |-> <<>>],
         EncInfo |-> EncInfo,
         Doc |-> Doc,
         Zw |-> [total |-> 0, processed |-> 0, todo |-> <<>>, entries |-> <<>>,
                 open |-> 0, peak |-> 0],
         Args |-> [sourcePath |-> <<>>, setupFile |-> <<>>, outputPath |-> <<>>,
                   progress |-> FALSE],
         PackageResult |-> Result,
         Ret |-> [err |-> "", cause |-> "", result |-> Result],
         Pk |-> [sourceSize |-> 0, fileCount |-> 0, msiInfo |-> NilMsi, msiErr |-> "",
                 zipData |-> <<>>, encInfo |-> EncInfo, encryptedData |-> <<>>,
                 appName |-> <<>>, detectionXML |-> Doc, packageData |-> <<>>],
         Ole |-> [pc |-> "off", present |-> FALSE, str |-> <<>>, fallback |-> <<>>,
                  packageCode |-> <<>>],
         Xm |-> [pc |-> "off", file |-> <<>>, err |-> "", info |-> NilMsi, ran |-> <<>>],
         Tui |-> [m |-> <<>>, quit |-> FALSE, runs |-> <<>>, nkeys |-> 0, last |-> <<>>]]

\* the file system before the call
InitFS ==
    (<<>> :> Dir) @@
    (<<S.setup_exe>> :> File(<<77, 90>>)) @@
    (<<S.afile>> :> File(<<1>>)) @@
    (<<S.empty>> :> Dir) @@
    (<<S.hollow>> :> Dir) @@
    (<<S.hollow, S.inner>> :> Dir) @@
    (<<S.one>> :> Dir) @@
    (<<S.one, S.setup_exe>> :> File(<<77, 90, 3>>)) @@
    (<<S.out>> :> Dir) @@
    (<<S.out, S.app_intunewin>> :> File(<<>>)) @@
    (<<S.src>> :> Dir) @@
    (<<S.src, S.Setup_Msi>> :> File(<<1, 2>>)) @@
    (<<S.src, S.app_msi>> :> File(<<208, 207, 17>>)) @@
    (<<S.src, S.data>> :> Dir) @@
    (<<S.src, S.data, S.c_json>> :> File(<<123, 125>>)) @@
    (<<S.src, S.install_ps1>> :> File(<<35>>)) @@
    (<<S.src, S.notes_txt>> :> File(<<110>>)) @@
    (<<S.src, S.setup_exe>> :> File(<<77, 90>>)) @@
    (<<S.src, S.sub>> :> Dir) @@
    (<<S.src, S.sub, S.setup_exe>> :> File(<<77>>))

SourceDirs == {S.src, S.one, S.empty, S.afile, S.nosuch}
SetupFiles == {S.setup_exe, S.Setup_Msi, S.app_msi, S.install_ps1, S.notes_txt,
               S.data, S.sub_setup_exe, S.up_setup_exe, S.missing_exe, <<>>}
OutputDirs == {<<>>, S.out, S.new, S.afile}

\* the packager is not running (the crypto harness is)
PkgIdle ==
    /\ pc = "off"
    /\ args = No.Args
    /\ fs = InitFS
    /\ progressLog = <<>>
    /\ stageLog = <<>>
    /\ ret = No.Ret
    /\ zw = No.Zw
    /\ pk = No.Pk

CInit ==
    /\ \/ /\ cpc = "init"
          /\ cin \in [plaintext : PlainInputs,
                      encKey : {Fill(KeySize, k) : k \in KeyBytes},
                      macKey : {Fill(KeySize, k) : k \in KeyBytes},
                      iv : {Fill(BlockSize, k) : k \in IvBytes} \cup {Fill(BlockSize - 1, 0)}]
       \/ /\ cpc = "unpad"
          /\ cin = No.Cin
    /\ blob = <<>>
    /\ recv = <<>>
    /\ dec = No.Result
    /\ unpadIn = <<>>
    /\ unpadOut = No.Unpad
    /\ ole = No.Ole
    /\ xm = No.Xm
    /\ tui = No.Tui
    /\ oracle = <<>>
    /\ PkgIdle

CEncrypt ==
    /\ cpc = "init"
    /\ LET r == EncryptContent(oracle, cin.plaintext, cin.encKey, cin.macKey, cin.iv)
       IN  /\ blob' = r.data
           /\ recv' = r.data
           /\ cpc' = IF r.err = "" THEN "encrypted" ELSE "failed"
           /\ oracle' = IF r.err = ""
                        THEN OracleAsk(oracle, HmacQuery(cin.macKey,
                                 EncryptMacInput(cin.plaintext, cin.encKey, cin.iv)))
                        ELSE oracle
    /\ UNCHANGED <<cin, dec, unpadIn, unpadOut, ole, xm, tui, pvars>>

\* bits of the IV or of the ciphertext (byte offset >= 32) are flipped on the way:
\* in one byte, or in one byte and in the last byte of the blob
CTamper ==
    /\ cpc = "encrypted"
    /\ \E pos \in (MacSize + 1)..Len(recv), mask \in TamperMasks, also \in BOOLEAN :
          recv' = IF also /\ pos # Len(recv)
                  THEN FlipBits(FlipBits(recv, pos, mask), Len(recv), mask)
                  ELSE FlipBits(recv, pos, mask)
    /\ cpc' = "tampered"
    /\ UNCHANGED <<cin, blob, dec, unpadIn, unpadOut, oracle, ole, xm, tui, pvars>>

CDecrypt ==
    /\ cpc \in {"encrypted", "tampered"}
    /\ dec' = DecryptContent(oracle, recv, cin.encKey, cin.macKey)
    /\ oracle' = OracleAsk(oracle, HmacQuery(cin.macKey, DecryptMacInput(recv)))
    /\ cpc' = "decrypted"
    /\ UNCHANGED <<cin, blob, recv, unpadIn, unpadOut, ole, xm, tui, pvars>>

\* PKCS7Unpad, called on an arbitrary input or on what PKCS7Pad returned
CUnpad ==
    /\ cpc = "unpad"
    /\ \E d \in UnpadInputs \cup { PKCS7Pad(x, BlockSize) : x \in PlainInputs } :
          /\ unpadIn' = d
          /\ unpadOut' = PKCS7Unpad(d)
    /\ cpc' = "unpadded"
    /\ UNCHANGED <<cin, blob, recv, dec, oracle, ole, xm, tui, pvars>>

CNext == CEncrypt \/ CTamper \/ CDecrypt \/ CUnpad

SpecCrypto == CInit /\ [][CNext]_vars

-----------------------------------------------------------------------------
(* The orchestrator (packager.go) *)

ValidExtensions == {S.dot_msi, S.dot_exe, S.dot_ps1, S.dot_cmd, S.dot_bat}

\* fault: the os.Stat call that fails with an error other than "not exist"
validateInputs(f, sourcePath, setupFile, outputPath, fault) ==
    LET src == Clean(sourcePath)
        setupFilePath == Join(sourcePath, setupFile)
    IN  IF fault # "stat_source" /\ ~Exists(f, src) THEN "source folder does not exist"
        ELSE IF fault = "stat_source" THEN "cannot access source folder"
        ELSE IF ~IsDir(f, src) THEN "source path is not a directory"
        ELSE IF fault # "stat_setup" /\ ~Exists(f, setupFilePath) THEN "setup file not found"
        ELSE IF fault = "stat_setup" THEN "cannot access setup file"
        ELSE IF IsDir(f, setupFilePath) THEN "setup file is a directory"
        ELSE IF ToLower(Ext(setupFile)) \notin ValidExtensions
             THEN "unsupported setup file type"
        ELSE IF outputPath = <<>> THEN "output path cannot be empty"
        ELSE ""

\* report: the callback is called when one was given
Report(log, on, step, file, num, den) ==
    IF on THEN Append(log, [step |-> step, file |-> file, num |-> num, den |-> den])
    ELSE log

\* os.MkdirAll on a cleaned path
MkdirAll(f, path) ==
    IF \E n \in 1..Len(path) : IsFile(f, SubSeq(path, 1, n))
    THEN [err |-> "not a directory", fs |-> f]
    ELSE [err |-> "",
          fs |-> [q \in DOMAIN f \cup { SubSeq(path, 1, n) : n \in 1..Len(path) } |->
                    IF q \in DOMAIN f THEN f[q] ELSE Dir]]

\* os.WriteFile: open with O_WRONLY|O_CREATE|O_TRUNC, write, close.
\* fault: "open" (the open fails), "write" (the write fails after `done`
\* of the data was written), "none"
WriteFile(f, path, data, fault, done) ==
    IF Len(path) = 0 \/ ~IsDir(f, SubSeq(path, 1, Len(path) - 1))
    THEN [err |-> "no such file or directory", fs |-> f]
    ELSE IF IsDir(f, path) THEN [err |-> "is a directory", fs |-> f]
    ELSE IF fault = "open" THEN [err |-> "permission denied", fs |-> f]
    ELSE LET node == IF fault = "write" THEN Partial(SubSeq(data, 1, done)) ELSE File(data)
         IN  [err |-> IF fault = "write" THEN "no space left on device" ELSE "",
              fs |-> [q \in DOMAIN f \cup {path} |-> IF q = path THEN node ELSE f[q]]]

\* the keys and the IV GenerateKeys draws
KeyDraws ==
    { <<Fill(KeySize, 17), Fill(KeySize, 201), Fill(BlockSize, 77)>>,
      <<Fill(KeySize, 250), Fill(KeySize, 3), Fill(BlockSize, 0)>> }

\* time.Now()
Times == {1, 2}

OutputFileName(appName) == appName \o S.dot_intunewin

\* Package returns (nil, error)
Return(prefix, cause) ==
    /\ pc' = "returned"
    /\ ret' = [err |-> prefix, cause |-> cause, result |-> No.PackageResult]

Init ==
    /\ pc = "start"
    /\ args \in [sourcePath : SourceDirs, setupFile : SetupFiles,
                 outputPath : OutputDirs, progress : BOOLEAN]
    /\ fs = InitFS
    /\ progressLog = <<>>
    /\ stageLog = <<>>
    /\ ret = No.Ret
    /\ zw = No.Zw
    /\ pk = No.Pk
    /\ oracle = <<>>
    /\ cpc = "off"
    /\ cin = No.Cin
    /\ blob = <<>>
    /\ recv = <<>>
    /\ dec = No.Result
    /\ unpadIn = <<>>
    /\ unpadOut = No.Unpad
    /\ ole = No.Ole
    /\ xm = No.Xm
    /\ tui = No.Tui

\* Step 1: validate inputs (0.05)
PkgValidate ==
    /\ pc = "start"
    /\ progressLog' = Report(progressLog, args.progress, "Validating inputs", <<>>, 5, 100)
    /\ stageLog' = Append(stageLog, "validate")
    /\ \E fault \in {"none", "stat_source", "stat_setup"} :
          LET e == validateInputs(fs, args.sourcePath, args.setupFile, args.outputPath, fault)
          IN  IF e # "" THEN Return("validation failed", e)
              ELSE pc' = "stats" /\ UNCHANGED ret
    /\ UNCHANGED <<args, fs, zw, pk, oracle, cvars>>

\* GetFolderSize and CountFiles
PkgStats ==
    /\ pc = "stats"
    /\ stageLog' = Append(stageLog, "stats")
    /\ \/ /\ pk' = [pk EXCEPT !.sourceSize = GetFolderSize(fs, Clean(args.sourcePath)),
                              !.fileCount = CountFiles(fs, Clean(args.sourcePath))]
          /\ pc' = "msi"
          /\ UNCHANGED ret
       \/ /\ Return("failed to get source folder size", "walk error")
          /\ UNCHANGED pk
       \/ /\ Return("failed to count files", "walk error")
          /\ UNCHANGED pk
    /\ UNCHANGED <<args, fs, progressLog, zw, oracle, cvars>>

\* Step 2: extract MSI info if applicable (0.10); an error of the extractor
\* is printed as a warning and the call goes on
PkgMsiFatal ==
    /\ pc = "msi"
    /\ progressLog' = Report(progressLog, args.progress, "Checking for MSI metadata",
                             <<>>, 10, 100)
    /\ stageLog' = Append(stageLog, "msi")
    /\ LET setupFilePath == Join(args.sourcePath, args.setupFile)
       IN  \/ /\ ~IsMsiFile(args.setupFile)
              /\ pc' = "compress"
              /\ UNCHANGED <<pk, ret>>
           \/ /\ IsMsiFile(args.setupFile)
              /\ \E cause \in {"failed to open MSI file", "failed to parse MSI as OLE document",
                               "failed to read MSI file"} :
                    /\ cause = "failed to parse MSI as OLE document"
                          => ~IsCompoundFile(fs[setupFilePath].data)
                    /\ cause = "failed to read MSI file"
                          => IsCompoundFile(fs[setupFilePath].data)
                    /\ pk' = [pk EXCEPT !.msiInfo = NilMsi, !.msiErr = cause]
                    /\ Return("MSI extraction failed", cause)
           \/ /\ IsMsiFile(args.setupFile)
              /\ IsCompoundFile(fs[setupFilePath].data)
              /\ \E info \in MsiResults : pk' = [pk EXCEPT !.msiInfo = info]
              /\ pc' = "compress"
              /\ UNCHANGED ret
    /\ UNCHANGED <<args, fs, zw, oracle, cvars>>

PkgMsi ==
    /\ pc = "msi"
    /\ progressLog' = Report(progressLog, args.progress, "Checking for MSI metadata",
                             <<>>, 10, 100)
    /\ stageLog' = Append(stageLog, "msi")
    /\ LET setupFilePath == Join(args.sourcePath, args.setupFile)
       IN  \/ /\ ~IsMsiFile(args.setupFile)
              /\ UNCHANGED pk
           \/ /\ IsMsiFile(args.setupFile)
              /\ \E cause \in {"failed to open MSI file", "failed to parse MSI as OLE document",
                               "failed to read MSI file"} :
                    /\ cause = "failed to parse MSI as OLE document"
                          => ~IsCompoundFile(fs[setupFilePath].data)
                    /\ cause = "failed to read MSI file"
                          => IsCompoundFile(fs[setupFilePath].data)
                    /\ pk' = [pk EXCEPT !.msiInfo = NilMsi, !.msiErr = cause]
           \/ /\ IsMsiFile(args.setupFile)
              /\ IsCompoundFile(fs[setupFilePath].data)
              /\ \E info \in MsiResults : pk' = [pk EXCEPT !.msiInfo = info]
    /\ pc' = "compress"
    /\ UNCHANGED <<args, fs, ret, zw, oracle, cvars>>

\* Step 3: compress (0.15); ZipFolderWithProgress counts the files first
PkgCompressStart ==
    /\ pc = "compress"
    /\ progressLog' = Report(progressLog, args.progress, "Compressing files", <<>>, 15, 100)
    /\ stageLog' = Append(stageLog, "compress")
    /\ LET root == Clean(args.sourcePath)
           walk == WalkList(fs, root)
           totalFiles == Cardinality(WalkFiles(fs, walk))
       IN  \/ /\ Return("compression failed", "failed to count files")
              /\ UNCHANGED zw
           \/ /\ totalFiles = 0
              /\ Return("compression failed", "no files found in source directory")
              /\ UNCHANGED zw
           \/ /\ totalFiles > 0
              /\ zw' = [total |-> totalFiles, processed |-> 0,
                        todo |-> Tail(walk), entries |-> <<>>, open |-> 0, peak |-> 0]
              /\ pc' = "zipwalk"
              /\ UNCHANGED ret
    /\ UNCHANGED <<args, fs, pk, oracle, cvars>>

\* the fraction the orchestrator reports for the compressor's
\* processed/total: 0.15 + pct * 0.25, as a numerator over 100 * total
ScaledNumReversed(processed, total) == 15 * total + 25 * (total - processed)

ScaledNum(processed, total) == 15 * total + 25 * processed

\* os.Open without the deferred Close
OpenNeverClosed(z) ==
    [z EXCEPT !.open = @ + 1,
              !.peak = IF z.open + 1 > @ THEN z.open + 1 ELSE @]

\* os.Open(path) and "defer file.Close()" in the walk function: the file is
\* open while it is copied (peak is the largest number of source files that
\* were open at once) and closed when the walk function returns
OpenAndClose(z) ==
    [z EXCEPT !.open = @ + 1 - 1,
              !.peak = IF z.open + 1 > @ THEN z.open + 1 ELSE @]

\* the walk function of the second pass, on the next path of the walk
PkgCompressEntry ==
    /\ pc = "zipwalk"
    /\ Len(zw.todo) > 0
    /\ LET root == Clean(args.sourcePath)
           path == zw.todo[1]
           called == Report(progressLog, args.progress, "Compressing",
                            Rel(root, path), ScaledNum(zw.processed, zw.total),
                            100 * zw.total)
       IN  \/ /\ Return("compression failed", "failed to walk directory: lstat")
              /\ UNCHANGED <<zw, progressLog>>
           \/ /\ IsDir(fs, path)
              /\ zw' = [zw EXCEPT !.todo = Tail(@),
                                  !.entries = Append(@, ZipEntryFor(fs, root, path))]
              /\ UNCHANGED <<pc, ret, progressLog>>
           \/ /\ ~IsDir(fs, path)
              /\ progressLog' = called
              /\ \/ /\ zw' = [OpenAndClose(zw) EXCEPT
                                        !.todo = Tail(@),
                                        !.entries = Append(@, ZipEntryFor(fs, root, path)),
                                        !.processed = @ + 1]
                    /\ UNCHANGED <<pc, ret>>
                 \/ /\ Return("compression failed", "failed to walk directory: failed to open file")
                    /\ UNCHANGED zw
                 \/ /\ Return("compression failed",
                              "failed to walk directory: failed to write file to ZIP")
                    /\ zw' = OpenAndClose(zw)
    /\ UNCHANGED <<args, fs, stageLog, pk, oracle, cvars>>

PkgCompressFinishSilent ==
    /\ pc = "zipwalk"
    /\ Len(zw.todo) = 0
    /\ pk' = [pk EXCEPT !.zipData = ZipBytes(zw.entries)]
    /\ pc' = "encrypt"
    /\ UNCHANGED <<args, fs, progressLog, stageLog, ret, zw, oracle, cvars>>

\* after the walk: the final callback ("complete", 1.0), then the archive
PkgCompressFinish ==
    /\ pc = "zipwalk"
    /\ Len(zw.todo) = 0
    /\ progressLog' = Report(progressLog, args.progress, "Compressing", S.complete,
                             ScaledNum(1, 1), 100)
    /\ pk' = [pk EXCEPT !.zipData = ZipBytes(zw.entries)]
    /\ pc' = "encrypt"
    /\ UNCHANGED <<args, fs, stageLog, ret, zw, oracle, cvars>>

\* Step 4: encrypt (0.45 .. 0.70)
PkgEncrypt ==
    /\ pc = "encrypt"
    /\ stageLog' = Append(stageLog, "encrypt")
    /\ LET started == Report(progressLog, args.progress, "Encrypting content", <<>>, 45, 100)
       IN  \/ /\ progressLog' = started
              /\ Return("encryption failed", "failed to generate keys")
              /\ UNCHANGED <<pk, oracle>>
           \/ \E k \in KeyDraws :
                 LET r == CreateEncryptionInfo(oracle, pk.zipData, k[1], k[2], k[3])
                 IN  /\ r.err = ""
                     /\ pk' = [pk EXCEPT !.encInfo = r.info, !.encryptedData = r.encrypted]
                     /\ oracle' = OracleAsk(OracleAsk(oracle,
                                      EncryptionQueries(pk.zipData, k[1], k[2], k[3])[1]),
                                      EncryptionQueries(pk.zipData, k[1], k[2], k[3])[2])
                     /\ progressLog' = Report(started, args.progress, "Encryption complete",
                                              <<>>, 70, 100)
                     /\ pc' = "metadata"
                     /\ UNCHANGED ret
    /\ UNCHANGED <<args, fs, zw, cvars>>

\* Step 5: generate the descriptor (0.75)
PkgMetadata ==
    /\ pc = "metadata"
    /\ progressLog' = Report(progressLog, args.progress, "Generating metadata", <<>>, 75, 100)
    /\ stageLog' = Append(stageLog, "metadata")
    /\ LET appName == GetApplicationName(args.setupFile)
           params == MetadataParams(appName, args.setupFile, Len(pk.zipData),
                                    pk.encInfo, pk.msiInfo)
       IN  \/ /\ pk' = [pk EXCEPT !.appName = appName,
                                  !.detectionXML = GenerateDetectionXML(params)]
              /\ pc' = "assemble"
              /\ UNCHANGED ret
           \/ /\ pk' = [pk EXCEPT !.appName = appName]
              /\ Return("metadata generation failed", "failed to marshal XML")
    /\ UNCHANGED <<args, fs, zw, oracle, cvars>>

\* Step 6: assemble the outer archive (0.85)
PkgAssemble ==
    /\ pc = "assemble"
    /\ progressLog' = Report(progressLog, args.progress, "Creating package", <<>>, 85, 100)
    /\ stageLog' = Append(stageLog, "assemble")
    /\ \/ /\ \E now \in Times :
                pk' = [pk EXCEPT !.packageData =
                          CreateIntunewinPackage(pk.encryptedData, pk.detectionXML, now)]
          /\ pc' = "mkdir"
          /\ UNCHANGED ret
       \/ /\ Return("package creation failed", "failed to close package")
          /\ UNCHANGED pk
    /\ UNCHANGED <<args, fs, zw, oracle, cvars>>

\* Step 7 (0.95): make sure the output directory exists
PkgMkdirIgnoresError ==
    /\ pc = "mkdir"
    /\ progressLog' = Report(progressLog, args.progress, "Writing output file", <<>>, 95, 100)
    /\ stageLog' = Append(stageLog, "mkdir")
    /\ \E fault \in BOOLEAN :
          LET r == MkdirAll(fs, Clean(args.outputPath))
          IN  /\ fs' = IF fault THEN fs ELSE r.fs
              /\ pc' = "write"
              /\ UNCHANGED ret
    /\ UNCHANGED <<args, zw, pk, oracle, cvars>>

PkgMkdir ==
    /\ pc = "mkdir"
    /\ progressLog' = Report(progressLog, args.progress, "Writing output file", <<>>, 95, 100)
    /\ stageLog' = Append(stageLog, "mkdir")
    /\ \E fault \in BOOLEAN :
          LET r == MkdirAll(fs, Clean(args.outputPath))
          IN  IF fault \/ r.err # ""
              THEN /\ Return("failed to create output directory",
                             IF fault THEN "permission denied" ELSE r.err)
                   /\ UNCHANGED fs
              ELSE /\ fs' = r.fs
                   /\ pc' = "write"
                   /\ UNCHANGED ret
    /\ UNCHANGED <<args, zw, pk, oracle, cvars>>

\* the path Package writes to: outputPath joined with <appName>.intunewin
OutputFilePath == Join(args.outputPath, OutputFileName(pk.appName))

\* Step 7: write the output file, then report 1.0 and return the result
PkgWrite ==
    /\ pc = "write"
    /\ stageLog' = Append(stageLog, "write")
    /\ \E fault \in {"none", "open", "write"}, done \in 0..(Len(pk.packageData) - 1) :
          LET r == WriteFile(fs, OutputFilePath, pk.packageData, fault, done)
          IN  /\ fs' = r.fs
              /\ IF r.err # ""
                 THEN /\ Return("failed to write output file", r.err)
                      /\ UNCHANGED progressLog
                 ELSE /\ progressLog' = Report(progressLog, args.progress, "Complete",
                                               <<>>, 100, 100)
                      /\ pc' = "returned"
                      /\ ret' = [err |-> "", cause |-> "",
                                 result |-> PackageResult(OutputFilePath, pk.sourceSize,
                                               Len(pk.zipData), Len(pk.encryptedData),
                                               pk.fileCount)]
    /\ UNCHANGED <<args, zw, pk, oracle, cvars>>

Next ==
    \/ PkgValidate
    \/ PkgStats
    \/ PkgMsi
    \/ PkgCompressStart
    \/ PkgCompressEntry
    \/ PkgCompressFinish
    \/ PkgEncrypt
    \/ PkgMetadata
    \/ PkgAssemble
    \/ PkgMkdir
    \/ PkgWrite

Spec == Init /\ [][Next]_vars

-----------------------------------------------------------------------------
(* The harness of the compressor: ZipFolder, or ZipFolderWithProgress with *)
(* the callback Package gives it, is called on a directory that went       *)
(* through no validation.                                                  *)

ZipDirs == {S.src, S.one, S.empty, S.hollow, S.afile, S.nosuch}

ZInit ==
    /\ args \in [sourcePath : ZipDirs, setupFile : {<<>>}, outputPath : {<<>>},
                 progress : BOOLEAN]
    /\ pc \in {"zipfolder", "compress"}
    /\ pc = "compress" => Exists(InitFS, Clean(args.sourcePath))
    /\ fs = InitFS
    /\ progressLog = <<>>
    /\ stageLog = <<>>
    /\ ret = No.Ret
    /\ zw = No.Zw
    /\ pk = No.Pk
    /\ oracle = <<>>
    /\ cpc = "off"
    /\ cin = No.Cin
    /\ blob = <<>>
    /\ recv = <<>>
    /\ dec = No.Result
    /\ unpadIn = <<>>
    /\ unpadOut = No.Unpad
    /\ ole = No.Ole
    /\ xm = No.Xm
    /\ tui = No.Tui

ZipFolderCall ==
    /\ pc = "zipfolder"
    /\ \E fault \in BOOLEAN :
          LET r == ZipFolder(fs, args.sourcePath, fault)
          IN  /\ pk' = [pk EXCEPT !.zipData = r.data]
              /\ ret' = [err |-> r.err, cause |-> "", result |-> No.PackageResult]
    /\ pc' = "returned"
    /\ UNCHANGED <<args, fs, progressLog, stageLog, zw, oracle, cvars>>

ZNext ==
    \/ ZipFolderCall
    \/ PkgCompressStart
    \/ PkgCompressEntry
    \/ PkgCompressFinish

SpecZip == ZInit /\ [][ZNext]_vars

-----------------------------------------------------------------------------
(* The harness of the package-code extractor *)

\* values of PIDSI_REVNUMBER: braced GUIDs, the same 32 digits without braces
\* and dashes, both with a character that is no hex digit, a short string
RevNumbers ==
    LET digits == {"0", "1", "2", "A", "b", "F", "G"}
        braced(x, y) == <<"{", x, y>> \o SubSeq(S.guid1, 4, 38)
        plain(x, y) == SelectSeq(braced(x, y), LAMBDA c : c \notin {"{", "}", "-"})
    IN  { braced(x, y) : x \in digits, y \in digits }
           \cup { plain(x, y) : x \in digits, y \in digits }
           \cup { SubSeq(S.guid1, 1, 37), <<>> }

\* the files ExtractMsiInfo is called on. The raw bytes are four parts and a
\* tail of 64 zeros (40 in one file): the product code (after its name in ASCII, in UTF-16LE, or
\* 70 bytes away from it), the version (with the upgrade code behind it,
\* malformed, or in UTF-16LE 66 bytes away), the manufacturer and product
\* name, a GUID that belongs to no property. The string pool is taken as
\* decodeStringPool returns it.
MsiFiles ==
    LET NUL(n) == Fill(n, "NUL")
        U(s) == stringToUTF16LE(s)
        G(x) == <<"{", x>> \o SubSeq(S.guid1, 3, 38)
        codes == { <<>>,
                   S.ProductCode \o S.guid1,
                   U(S.ProductCode) \o U(G("A")),
                   S.ProductCode \o NUL(70) \o G("B") }
        versions == { <<>>,
                      S.ProductVersion \o S.version \o S.UpgradeCode \o G("C"),
                      S.ProductVersion \o <<"x", ".", "1">> \o NUL(1),
                      U(S.ProductVersion) \o NUL(66) \o U(<<"1", ".", "0">>) \o NUL(2) }
        makers == { <<>>,
                    S.Manufacturer \o S.publisher \o S.ProductName \o S.product \o NUL(1),
                    S.Manufacturer \o <<"F", "o", "o", " ", "(", "x", "8", "6", ")">> \o NUL(1),
                    S.Manufacturer \o <<"[", "A", "c", "m", "e", "]">> \o S.ProductName \o <<"S", "e", "t", "u", "p", " ", "W", "i", "z", "a", "r", "d">> \o NUL(1),
                    U(S.Manufacturer) \o U(<<"1", "2", "3", " ", "4", "5", "6">>) \o NUL(2) }
        strays == { <<>>, G("D") }
        pools == { <<>>,
                   <<G("E"), <<"2", ".", "0">>, <<"A", "c", "m", "e", " ", "P", "o", "o", "l">>, G("F")>>,
                   <<<<"1", ".", "a", "2">>>>,
                   <<<<"A", "c", "m", "e", " ", " ", "I", "n", "s", "t", "a", "l", "l", "a", "t", "i", "o", "n">>, <<"1", ".", "0", "-", "2">>, G("E")>> }
        summaries ==
            { [hasSummary |-> FALSE, present |-> FALSE, str |-> <<>>, sdata |-> <<>>],
              [hasSummary |-> TRUE, present |-> TRUE, str |-> S.guid1, sdata |-> <<>>],
              [hasSummary |-> TRUE, present |-> TRUE,
               str |-> SelectSeq(G("G"), LAMBDA c : c \notin {"{", "}", "-"}),
               sdata |-> NUL(4) \o G("9") \o NUL(40)],
              [hasSummary |-> TRUE, present |-> FALSE, str |-> <<>>,
               sdata |-> NUL(4) \o SubSeq(S.guid1, 2, 9) \o SubSeq(S.guid1, 11, 14)
                           \o SubSeq(S.guid1, 16, 19) \o SubSeq(S.guid1, 21, 24)
                           \o SubSeq(S.guid1, 26, 37) \o NUL(4)],
              [hasSummary |-> TRUE, present |-> FALSE, str |-> <<>>, sdata |-> NUL(8)] }
        none == CHOOSE sm \in summaries : ~sm.hasSummary
        file(sm, pl, raw) ==
            [hasSummary |-> sm.hasSummary, present |-> sm.present, str |-> sm.str,
             sdata |-> sm.sdata, pool |-> pl, raw |-> raw]
    IN  { file(none, pl, c \o v \o m \o g \o NUL(64)) :
              pl \in {pl \in pools : Len(pl) \in {0, 4}}, c \in codes, v \in versions,
              m \in makers, g \in strays }
        \cup { file(sm, pl, c \o g \o NUL(64)) :
                   sm \in summaries, pl \in pools,
                   c \in {c \in codes : Len(c) < 60}, g \in strays }
        \cup { file(none, <<>>, U(S.Manufacturer) \o NUL(n)) : n \in {40, 64} }

MInit ==
    /\ \/ /\ ole \in [pc : {"call"}, present : BOOLEAN, str : RevNumbers,
                      fallback : {<<>>, S.guid1}, packageCode : {<<>>}]
          /\ ~ole.present => ole.str = <<>>
          /\ xm = No.Xm
       \/ /\ ole = No.Ole
          /\ xm \in [pc : {"call"}, file : MsiFiles, err : {""}, info : {NilMsi},
                     ran : {<<>>}]
    /\ tui = No.Tui
    /\ cpc = "off"
    /\ cin = No.Cin
    /\ blob = <<>>
    /\ recv = <<>>
    /\ dec = No.Result
    /\ unpadIn = <<>>
    /\ unpadOut = No.Unpad
    /\ oracle = <<>>
    /\ PkgIdle

MExtractPackageCode ==
    /\ ole.pc = "call"
    /\ ole' = [ole EXCEPT !.pc = "done",
                          !.packageCode =
                              extractPackageCodeFromOLEPS(ole.present, ole.str, ole.fallback)]
    /\ UNCHANGED <<cpc, cin, blob, recv, dec, unpadIn, unpadOut, oracle, xm, tui, pvars>>

MExtractMsiInfo ==
    /\ xm.pc = "call"
    /\ \E r \in {ExtractMsiInfo(xm.file)} :
          xm' = [xm EXCEPT !.pc = "done", !.err = r.err, !.info = r.info, !.ran = r.ran]
    /\ UNCHANGED <<cpc, cin, blob, recv, dec, unpadIn, unpadOut, oracle, ole, tui, pvars>>

MNext ==
    \/ MExtractPackageCode
    \/ MExtractMsiInfo

SpecMsi == MInit /\ [][MNext]_vars

-----------------------------------------------------------------------------
(* The terminal interface (internal/tui). The event loop hands one message *)
(* at a time to Model.Update; a command that Update returns runs in its    *)
(* own goroutine and its result is one more message. Percentages are       *)
(* integers out of 100. The directories that are typed hold no setup file, *)
(* so autoDetectSetupFileCmd returns no message; the file picker lists      *)
(* nothing that could be selected.                                         *)

MaxKeys == 4
MaxRuns == 2
NumProgress == 1

\* Model.Update: the model after the message and the command that is returned
\* ("nil", "quit" for tea.Quit, "startPackaging")
Update(m, msg) ==
    LET Quit == {"q", "ctrl+c"}
        Browse == {"ctrl+o", "ctrl+b", "f2"}
        numInputFields == 4
        valid == \A i \in 1..3 : m.inputs[i] # <<>>
        setFocus(idx) == [m EXCEPT !.focusIndex = idx]
        nextInput == [m EXCEPT !.focusIndex = (@ + 1) % numInputFields]
        prevInput == [m EXCEPT !.focusIndex = IF @ - 1 < 0 THEN numInputFields - 1 ELSE @ - 1]
        \* textinput.Model.Update: a character is appended (up to CharLimit),
        \* backspace removes the last one
        textinput(value, limit) ==
            IF Len(msg.key) = 1 /\ Len(value) < limit THEN Append(value, msg.key)
            ELSE IF msg.key = "backspace" /\ Len(value) > 0
                 THEN SubSeq(value, 1, Len(value) - 1)
            ELSE value
        updateWelcome ==
            IF msg.key \in {"enter", " "}
            THEN [m |-> [setFocus(0) EXCEPT !.screen = "input"], cmd |-> "nil"]
            ELSE [m |-> m, cmd |-> "nil"]
        updateInput ==
            IF msg.key = "esc" THEN [m |-> [m EXCEPT !.screen = "welcome"], cmd |-> "nil"]
            ELSE IF msg.key = "tab" THEN [m |-> nextInput, cmd |-> "nil"]
            ELSE IF msg.key = "shift+tab" THEN [m |-> prevInput, cmd |-> "nil"]
            ELSE IF msg.key \in Browse
            THEN IF m.focusIndex \in {0, 2}
                 THEN [m |-> [m EXCEPT !.previousScreen = "input", !.screen = "filepicker"],
                       cmd |-> "nil"]
                 ELSE [m |-> m, cmd |-> "nil"]
            ELSE IF msg.key = "enter"
            THEN IF m.focusIndex = 3
                 THEN IF ~valid
                      THEN [m |-> [m EXCEPT !.err = "validation", !.screen = "error"],
                            cmd |-> "nil"]
                      ELSE [m |-> m, cmd |-> "startPackaging"]
                 ELSE [m |-> nextInput, cmd |-> "nil"]
            ELSE IF m.focusIndex < 3
            THEN [m |-> [m EXCEPT !.inputs[m.focusIndex + 1] =
                                      textinput(@, IF m.focusIndex = 1 THEN 256 ELSE 500)],
                  cmd |-> "nil"]
            ELSE [m |-> m, cmd |-> "nil"]
        updateFilePicker ==
            IF msg.type = "key" /\ msg.key = "esc"
            THEN [m |-> [m EXCEPT !.screen = m.previousScreen], cmd |-> "nil"]
            ELSE [m |-> m, cmd |-> "nil"]
        updateProcessing == [m |-> m, cmd |-> "nil"]
        resetForNewPackage ==
            [m EXCEPT !.screen = "input", !.result = "", !.err = "", !.progress = 0,
                      !.inputs = <<<<>>, <<>>, <<>>>>, !.focusIndex = 0]
        updateSuccess ==
            IF msg.key = "enter" THEN [m |-> resetForNewPackage, cmd |-> "nil"]
            ELSE IF msg.key = "esc" THEN [m |-> m, cmd |-> "quit"]
            ELSE [m |-> m, cmd |-> "nil"]
        updateError ==
            IF msg.key = "r"
            THEN IF valid THEN [m |-> [m EXCEPT !.err = ""], cmd |-> "startPackaging"]
                 ELSE [m |-> [m EXCEPT !.err = "", !.screen = "input"], cmd |-> "nil"]
            ELSE IF msg.key \in {"esc", "backspace"}
            THEN [m |-> [m EXCEPT !.err = "", !.screen = "input"], cmd |-> "nil"]
            ELSE [m |-> m, cmd |-> "nil"]
    IN  IF m.screen = "filepicker" THEN updateFilePicker
        ELSE IF msg.type = "key"
        THEN IF msg.key \in Quit /\ m.screen # "processing" THEN [m |-> m, cmd |-> "quit"]
             ELSE IF m.screen = "welcome" THEN updateWelcome
             ELSE IF m.screen = "input" THEN updateInput
             ELSE IF m.screen = "processing" THEN updateProcessing
             ELSE IF m.screen = "success" THEN updateSuccess
             ELSE updateError
        ELSE IF msg.type = "packageStartMsg"
        THEN [m |-> [m EXCEPT !.screen = "processing", !.progress = 0], cmd |-> "nil"]
        ELSE IF msg.type = "packageProgressMsg"
        THEN [m |-> [m EXCEPT !.progress = msg.percent], cmd |-> "nil"]
        ELSE IF msg.type = "packageCompleteMsg"
        THEN [m |-> [m EXCEPT !.screen = "success", !.result = "result", !.progress = 100],
              cmd |-> "nil"]
        ELSE [m |-> [m EXCEPT !.screen = "error", !.err = "package"], cmd |-> "nil"]

\* the event loop takes a message: Update is called, tea.Quit ends the
\* program, a startPackaging command is kept to be run. run is the number of
\* the startPackaging command the message comes from (0 for a key), changed
\* the record of that command once the message is received: shown is
\* set once Update has displayed a progress report of it, reset when its
\* packageStartMsg has put the displayed progress back to 0 after that.
Deliver(msg, run, changed) ==
    LET r == Update(tui.m, msg)
        runs == [i \in 1..Len(tui.runs) |->
                     IF i = run THEN changed ELSE tui.runs[i]]
    IN  /\ ~tui.quit
        /\ r.cmd = "startPackaging" => Len(tui.runs) < MaxRuns
        /\ tui' = [m |-> r.m,
                   quit |-> r.cmd = "quit",
                   runs |-> IF r.cmd = "startPackaging"
                            THEN Append(runs, [cmd |-> "returned", start |-> "none",
                                               sent |-> 0, final |-> "none",
                                               shown |-> FALSE, reset |-> FALSE])
                            ELSE runs,
                   nkeys |-> tui.nkeys + (IF msg.type = "key" THEN 1 ELSE 0),
                   last |-> [msg |-> msg, m |-> tui.m]]
        /\ UNCHANGED <<cpc, cin, blob, recv, dec, unpadIn, unpadOut, oracle, ole, xm, pvars>>

\* NewModel with the presets of the command line (none, or all three), Run
TInit ==
    /\ \E inputs \in {<<<<>>, <<>>, <<>>>>, <<S.src, S.setup_exe, S.out>>} :
          LET m == [screen |-> "welcome", previousScreen |-> "welcome",
                    inputs |-> inputs, focusIndex |-> 0, progress |-> 0,
                    result |-> "", err |-> ""]
          IN  tui = [m |-> m, quit |-> FALSE, runs |-> <<>>, nkeys |-> 0,
                     last |-> [msg |-> [type |-> "none"], m |-> m]]
    /\ ole = No.Ole
    /\ xm = No.Xm
    /\ cpc = "off"
    /\ cin = No.Cin
    /\ blob = <<>>
    /\ recv = <<>>
    /\ dec = No.Result
    /\ unpadIn = <<>>
    /\ unpadOut = No.Unpad
    /\ oracle = <<>>
    /\ PkgIdle

\* a key is pressed
TKey ==
    /\ tui.nkeys < MaxKeys
    /\ \E k \in {"enter", "tab", "shift+tab", "esc", "ctrl+o", "backspace",
                 "q", "ctrl+c", "r", "a", " "} :
          Deliver([type |-> "key", key |-> k], 0, <<>>)

\* the function startPackaging returned is run: it starts the goroutine that
\* calls Package and returns packageStartMsg
TCommand ==
    /\ ~tui.quit
    /\ \E i \in 1..Len(tui.runs) :
          /\ tui.runs[i].cmd = "returned"
          /\ tui' = [tui EXCEPT !.runs[i].cmd = "ran", !.runs[i].start = "pending"]
    /\ UNCHANGED <<cpc, cin, blob, recv, dec, unpadIn, unpadOut, oracle, ole, xm, pvars>>

\* the event loop takes the packageStartMsg of a command
TStartMsg ==
    \E i \in 1..Len(tui.runs) :
        /\ tui.runs[i].start = "pending"
        /\ Deliver([type |-> "packageStartMsg"], i,
                   [tui.runs[i] EXCEPT
                        !.start = "delivered",
                        !.reset = tui.runs[i].shown /\ tui.m.screen # "filepicker"])

\* the goroutine sends its next message with program.Send: a progress
\* report, or the error or the result Package returned
TWorkerSend ==
    \E i \in 1..Len(tui.runs) :
        /\ tui.runs[i].cmd = "ran"
        /\ tui.runs[i].final = "none"
        /\ \/ /\ tui.runs[i].sent < NumProgress
              /\ Deliver([type |-> "packageProgressMsg",
                          percent |-> 5 * (tui.runs[i].sent + 1)], i,
                         [tui.runs[i] EXCEPT
                              !.sent = @ + 1,
                              !.shown = @ \/ tui.m.screen # "filepicker"])
           \/ Deliver([type |-> "packageErrorMsg"], i,
                      [tui.runs[i] EXCEPT !.final = "error"])
           \/ /\ tui.runs[i].sent = NumProgress
              /\ Deliver([type |-> "packageCompleteMsg"], i,
                         [tui.runs[i] EXCEPT !.final = "complete"])

TNext ==
    \/ TKey
    \/ TCommand
    \/ TStartMsg
    \/ TWorkerSend

SpecTui == TInit /\ [][TNext]_vars

-----------------------------------------------------------------------------
(* Claims about the crypto primitives (checked under SpecCrypto) *)

\* C1: decrypting what EncryptContent returned, with the same keys, succeeds
\* and returns exactly the plaintext, whatever its length (0 and multiples of
\* 16 included).
C1_RoundTrip ==
    (cpc = "decrypted" /\ recv = blob) =>
        (dec.err = "" /\ dec.data = cin.plaintext)

C1_Witness ==
    /\ cpc = "decrypted"
    /\ recv = blob
    /\ Len(cin.plaintext) = BlockSize
    /\ dec.err = ""
    /\ dec.data = cin.plaintext

\* C2: a blob of the same length that differs from the one EncryptContent
\* returned in some byte at offset >= 32 is refused with the MAC error, no
\* plaintext is returned, and the call stops at the MAC comparison.
C2_TamperRefused ==
    (/\ cpc = "decrypted"
     /\ Len(recv) = Len(blob)
     /\ \E i \in (MacSize + 1)..Len(recv) : recv[i] # blob[i]) =>
        (/\ dec.err = "HMAC verification failed"
         /\ dec.data = <<>>
         /\ dec.stage = "mac")

\* flip of bit 0 of byte 32, the first byte of the IV
C2_Witness ==
    /\ cpc = "decrypted"
    /\ recv = FlipBits(blob, MacSize + 1, 1)
    /\ dec.err = "HMAC verification failed"

\* C3: PKCS7Unpad returns an error and no data for every input that is empty,
\* or whose last byte is 0, is greater than 16 or greater than the input
\* length, or whose final padLen bytes are not all padLen.
C3_UnpadRejects ==
    LET d == unpadIn
        malformed ==
            \/ Len(d) = 0
            \/ d[Len(d)] = 0
            \/ d[Len(d)] > BlockSize
            \/ d[Len(d)] > Len(d)
            \/ \E i \in (Len(d) - d[Len(d)] + 1)..Len(d) : d[i] # d[Len(d)]
    IN  (cpc = "unpadded" /\ malformed) =>
            (unpadOut.err # "" /\ unpadOut.data = <<>>)

\* C11: EncryptContent returns mac(32) || iv(16) || ciphertext: bytes 32..47
\* are the iv argument, bytes 0..31 are the HMAC-SHA256 of the rest under
\* macKey, and for a plaintext of length n the blob has exactly
\* 48 + 16 * ceil((n + 1) / 16) bytes (a 16-byte plaintext gives a 32-byte
\* ciphertext part).
C11_BlobLayout ==
    cpc \in {"encrypted", "tampered", "decrypted"} =>
        LET n == Len(cin.plaintext)
        IN  /\ Len(blob) = HeaderSize + BlockSize * ((n + BlockSize) \div BlockSize)
            /\ SubSeq(blob, MacSize + 1, HeaderSize) = cin.iv
            /\ SubSeq(blob, 1, MacSize)
                  = HmacSha256(oracle, cin.macKey, SubSeq(blob, MacSize + 1, Len(blob)))
            /\ SubSeq(blob, HeaderSize + 1, Len(blob))
                  = CBCEncrypt(cin.encKey, cin.iv, PKCS7Pad(cin.plaintext, BlockSize))
            /\ n = BlockSize => Len(blob) - HeaderSize = 2 * BlockSize

\* a 16-byte plaintext, encrypted under an IV that is not all zero
C11_Witness ==
    /\ cpc = "encrypted"
    /\ Len(cin.plaintext) = BlockSize
    /\ cin.iv = Fill(BlockSize, 77)
    /\ Len(blob) = HeaderSize + 2 * BlockSize

\* C12: PKCS7Pad(x) with block size 16 is x followed by padLen bytes equal to
\* padLen, padLen = 16 - (len(x) mod 16), so between 1 and 16 (a full block
\* when len(x) is a multiple of 16); its length is a multiple of 16; and
\* PKCS7Unpad of it succeeds and returns x.
C12_PadUnpad ==
    cpc = "unpadded" =>
        \A x \in PlainInputs :
            unpadIn = PKCS7Pad(x, BlockSize) =>
                LET padLen == Len(unpadIn) - Len(x)
                IN  /\ padLen = BlockSize - (Len(x) % BlockSize)
                    /\ padLen >= 1
                    /\ padLen <= BlockSize
                    /\ Len(x) % BlockSize = 0 => padLen = BlockSize
                    /\ SubSeq(unpadIn, 1, Len(x)) = x
                    /\ \A i \in (Len(x) + 1)..Len(unpadIn) : unpadIn[i] = padLen
                    /\ Len(unpadIn) % BlockSize = 0
                    /\ unpadOut = Ok(x)

\* a 16-byte input ending in the byte 16, padded with a full block
C12_Witness ==
    /\ cpc = "unpadded"
    /\ unpadIn = PKCS7Pad(PlainOf(BlockSize, 171, 16), BlockSize)
    /\ Len(unpadIn) = 2 * BlockSize
    /\ unpadOut = Ok(PlainOf(BlockSize, 171, 16))

-----------------------------------------------------------------------------
(* Claims about Package (checked under Spec) *)

\* C4: when Package returned an error, no file exists at
\* outputDir/<appName>.intunewin that did not exist before the call, and no
\* partially written output file is left behind, whichever stage failed (the
\* final write included).
C4_NoOutputOnError ==
    (pc = "returned" /\ ret.err # "") =>
        LET out == Join(args.outputPath,
                        OutputFileName(GetApplicationName(args.setupFile)))
        IN  out \in DOMAIN fs => (out \in DOMAIN InitFS /\ fs[out].whole)

\* C5: unless sourceDir is a directory, setupFile is a plain file name (no
\* directory component), sourceDir/setupFile is a regular file, the lowercased
\* extension is one of msi, exe, ps1, cmd, bat and outputDir is not empty,
\* Package returns the validation error before any later stage ran and
\* before anything was written.
C5_ValidationRejects ==
    LET plainName == \A i \in 1..Len(args.setupFile) : args.setupFile[i] # "/"
        valid == /\ IsDir(InitFS, Clean(args.sourcePath))
                 /\ plainName
                 /\ IsFile(InitFS, Join(args.sourcePath, args.setupFile))
                 /\ ToLower(Ext(args.setupFile)) \in ValidExtensions
                 /\ args.outputPath # <<>>
    IN  (pc # "off" /\ ~valid) =>
            \/ pc = "start"
            \/ /\ pc = "returned"
               /\ ret.err = "validation failed"
               /\ stageLog = <<"validate">>
               /\ fs = InitFS

\* C6: for every accepted setupFile, appName is setupFile with its final
\* extension removed, and a successful Package wrote its output to
\* outputDir/<appName>.intunewin ("install.ps1" gives "install", "Setup.Msi"
\* gives "Setup").
C6_AppNameStripsExtension ==
    (pc = "returned" /\ ret.err = "") =>
        LET ext == Ext(args.setupFile)
            appName == SubSeq(args.setupFile, 1, Len(args.setupFile) - Len(ext))
            out == Join(args.outputPath, appName \o S.dot_intunewin)
        IN  /\ pk.appName = appName
            /\ ret.result.OutputPath = out
            /\ IsFile(fs, out)

\* the stages of a call that ran to the end
AllStages ==
    <<"validate", "stats", "msi", "compress", "encrypt", "metadata", "assemble",
      "mkdir", "write">>

\* C7: an error of ExtractMsiInfo on an MSI setup file does not fail Package:
\* the call goes on through compression, encryption, serialisation, assembly
\* and writing, no error it returns is the extractor's, and a successful call
\* has a descriptor without MSI fields whose Name is appName.
C7_MsiErrorNotFatal ==
    pk.msiErr # "" =>
        /\ IsMsiFile(args.setupFile)
        /\ pk.msiInfo = NilMsi
        /\ pc = "returned" =>
              /\ Len(stageLog) > 3
              /\ SubSeq(stageLog, 1, 4) = SubSeq(AllStages, 1, 4)
              /\ ret.cause # pk.msiErr
        /\ (pc = "returned" /\ ret.err = "") =>
              /\ stageLog = AllStages
              /\ ~pk.detectionXML.hasMsiInfo
              /\ pk.detectionXML.Name = GetApplicationName(args.setupFile)
              /\ pk.packageData[2].data = pk.detectionXML
              /\ fs[ret.result.OutputPath] = File(pk.packageData)

C7_Witness ==
    /\ pc = "returned"
    /\ ret.err = ""
    /\ pk.msiErr = "failed to parse MSI as OLE document"
    /\ args.setupFile = S.Setup_Msi

\* C8: the stages run in the fixed order (validate, MSI extraction, compress,
\* encrypt, serialise, assemble, create outputDir and write); a stage runs
\* only after the stage before it succeeded; a failure of a stage other than
\* MSI extraction is returned wrapped with the prefix of that stage, and no
\* later stage runs: no later checkpoint is reported, outputDir is not
\* created and nothing is written.
C8_StageOrder ==
    LET n == Len(stageLog)
        last == stageLog[n]
        prefixes ==
            [validate |-> {"validation failed"},
             stats    |-> {"failed to get source folder size", "failed to count files"},
             msi      |-> {},
             compress |-> {"compression failed"},
             encrypt  |-> {"encryption failed"},
             metadata |-> {"metadata generation failed"},
             assemble |-> {"package creation failed"},
             mkdir    |-> {"failed to create output directory"},
             write    |-> {"failed to write output file"}]
        checkpoint ==
            [validate |-> 5, stats |-> 5, msi |-> 10, compress |-> 40, encrypt |-> 45,
             metadata |-> 75, assemble |-> 85, mkdir |-> 95, write |-> 95]
    IN  /\ n <= Len(AllStages)
        /\ stageLog = SubSeq(AllStages, 1, n)
        /\ pc = "write" => IsDir(fs, Clean(args.outputPath))
        /\ (pc \notin {"off", "start", "returned"} /\ pc # "write") => fs = InitFS
        /\ (pc = "returned" /\ ret.err = "") => n = Len(AllStages)
        /\ (pc = "returned" /\ ret.err # "") =>
              /\ n > 0
              /\ ret.err \in prefixes[last]
              /\ ret.cause # ""
              /\ \A i \in 1..Len(progressLog) :
                    progressLog[i].num * 100 <= checkpoint[last] * progressLog[i].den
              /\ last # "write" => fs = InitFS

\* outputDir is missing and cannot be created
C8_Witness ==
    /\ pc = "returned"
    /\ ret.err = "failed to create output directory"
    /\ ret.cause = "not a directory"
    /\ args.outputPath = S.afile
    /\ args.progress
    /\ stageLog = SubSeq(AllStages, 1, 8)

\* C9: the fractions passed to the callback never decrease; the first is
\* 0.05; the rescaled fractions of the compressor lie in [0.15, 0.40]; every
\* checkpoint after them is at least 0.45; 1.0 is reported only after the
\* output file was written successfully.
C9_ProgressMonotone ==
    LET n == Len(progressLog)
        compressing(i) == progressLog[i].step = "Compressing"
    IN  /\ \A i \in 1..n : progressLog[i].den > 0
        /\ \A i \in 1..(n - 1) :
              progressLog[i].num * progressLog[i + 1].den
                 <= progressLog[i + 1].num * progressLog[i].den
        /\ n > 0 => progressLog[1].num * 100 = 5 * progressLog[1].den
        /\ \A i \in 1..n : compressing(i) =>
              /\ 15 * progressLog[i].den <= 100 * progressLog[i].num
              /\ 100 * progressLog[i].num <= 40 * progressLog[i].den
        /\ \A i \in 1..n, j \in 1..n :
              (i < j /\ compressing(i) /\ ~compressing(j)) =>
                 45 * progressLog[j].den <= 100 * progressLog[j].num
        /\ \A i \in 1..n : progressLog[i].num = progressLog[i].den =>
              /\ i = n
              /\ pc = "returned"
              /\ ret.err = ""
              /\ fs[ret.result.OutputPath] = File(pk.packageData)

\* a source tree of seven files, packaged to the end
C9_Witness ==
    /\ pc = "returned"
    /\ ret.err = ""
    /\ args.progress
    /\ zw.total = 7
    /\ Cardinality({ i \in 1..Len(progressLog) : progressLog[i].step = "Compressing" }) = 8
    /\ progressLog[Len(progressLog)].num = progressLog[Len(progressLog)].den

\* C10: after a successful Package the descriptor and the blob of the outer
\* archive agree: Mac is bytes 0..31 of the blob, InitializationVector is
\* bytes 32..47; decrypting the blob with the descriptor's keys gives the ZIP
\* of the source tree, which holds every source file at its relative path;
\* UnencryptedContentSize is the length of that ZIP and FileDigest its
\* SHA-256, asked for before the MAC of the encryption.
C10_DescriptorMatchesBlob ==
    (pc = "returned" /\ ret.err = "") =>
        LET archive == fs[ret.result.OutputPath].data
            blobData == archive[1].data
            doc == archive[2].data
            info == doc.EncryptionInfo
            plain == DecryptContent(oracle, blobData, Base64Decode(info.EncryptionKey),
                                    Base64Decode(info.MacKey))
            root == Clean(args.sourcePath)
            inner == ZipRead(plain.data)
        IN  /\ archive[1].name = ContentsName
            /\ archive[2].name = MetadataName
            /\ Len(blobData) >= HeaderSize
            /\ Base64Decode(info.Mac) = SubSeq(blobData, 1, MacSize)
            /\ Base64Decode(info.InitializationVector)
                  = SubSeq(blobData, MacSize + 1, HeaderSize)
            /\ plain.err = ""
            /\ plain.data = pk.zipData
            /\ \A p \in DOMAIN InitFS :
                  (IsFile(InitFS, p) /\ Len(p) > Len(root)
                        /\ SubSeq(p, 1, Len(root)) = root) =>
                     \E k \in 1..Len(inner) :
                        /\ inner[k].name = Rel(root, p)
                        /\ inner[k].data = InitFS[p].data
            /\ doc.UnencryptedContentSize = Len(plain.data)
            /\ Base64Decode(info.FileDigest) = Sha256(oracle, plain.data)
            /\ OracleIndex(oracle, ShaQuery(plain.data))
                  < OracleIndex(oracle, HmacQuery(Base64Decode(info.MacKey),
                                                  SubSeq(blobData, MacSize + 1, Len(blobData))))

\* the tree with a nested file, packaged to the end
C10_Witness ==
    /\ pc = "returned"
    /\ ret.err = ""
    /\ args.sourcePath = S.src
    /\ args.setupFile = S.setup_exe
    /\ \E k \in 1..Len(ZipRead(pk.zipData)) :
          ZipRead(pk.zipData)[k].name = S.data \o <<"/">> \o S.c_json
    /\ ret.result.FileCount = 7

\* C13: the archive CreateIntunewinPackage returns has exactly two entries
\* and no directory entry: first
\* IntuneWinPackage/Contents/IntunePackage.intunewin with the encrypted blob
\* unchanged, then IntuneWinPackage/Metadata/Detection.xml with the
\* descriptor unchanged; both are stored and carry the same modification time.
C13_OuterArchive ==
    (pc \in {"mkdir", "write"} \/ (pc = "returned" /\ Len(stageLog) > 7)) =>
        LET archive == pk.packageData
        IN  /\ Len(archive) = 2
            /\ archive[1].name = ContentsName
            /\ archive[1].data = pk.encryptedData
            /\ archive[2].name = MetadataName
            /\ archive[2].data = pk.detectionXML
            /\ \A i \in 1..Len(archive) : archive[i].method = "store"
            /\ \A i, j \in 1..Len(archive) : archive[i].modified = archive[j].modified

\* assembled from the blob of the seven-file tree, at the later of the times
C13_Witness ==
    /\ pc = "mkdir"
    /\ args.sourcePath = S.src
    /\ Len(pk.packageData) = 2
    /\ pk.packageData[1].modified = 2
    /\ Len(pk.packageData[1].data) > HeaderSize
    /\ pk.packageData[2].data.SetupFile = args.setupFile

-----------------------------------------------------------------------------
(* Claims about the compressor (checked under SpecZip) *)

\* C14 as stated: the set of entry names of the archive ZipFolder(D) returns
\* equals the set of relative paths of the regular files in D (at any depth),
\* written with forward slashes.
C14_EntryNamesAreFiles ==
    (pc = "returned" /\ stageLog = <<>> /\ ret.err = "") =>
        LET root == Clean(args.sourcePath)
            walk == WalkList(InitFS, root)
            entries == ZipRead(pk.zipData)
        IN  { entries[i].name : i \in 1..Len(entries) }
               = { Rel(root, walk[i]) : i \in WalkFiles(InitFS, walk) }

\* C14 as amended: the archive ZipFolder(D) returns has one entry per regular
\* file in D (at any depth), named by its relative path with forward slashes
\* and holding its content, and besides these one empty entry per
\* subdirectory of D, named by its relative path followed by "/"; it has no
\* other entry.
C14_EntryNames ==
    (pc = "returned" /\ stageLog = <<>> /\ ret.err = "") =>
        LET root == Clean(args.sourcePath)
            walk == WalkList(InitFS, root)
            entries == ZipRead(pk.zipData)
            isDirEntry(e) == e.name[Len(e.name)] = "/"
        IN  /\ IsDir(InitFS, root)
            /\ Len(entries) = Len(walk) - 1
            /\ { entries[i].name : i \in { j \in 1..Len(entries) : ~isDirEntry(entries[j]) } }
                  = { Rel(root, walk[i]) : i \in WalkFiles(InitFS, walk) }
            /\ { entries[i].name : i \in { j \in 1..Len(entries) : isDirEntry(entries[j]) } }
                  = { Rel(root, walk[i]) \o <<"/">> :
                         i \in (2..Len(walk)) \ WalkFiles(InitFS, walk) }
            /\ \A i \in 1..Len(entries) :
                  /\ entries[i].name[1] # "/"
                  /\ IF isDirEntry(entries[i]) THEN entries[i].data = <<>>
                     ELSE entries[i].data = InitFS[walk[i + 1]].data

\* the tree with two subdirectories
C14_Witness ==
    /\ pc = "returned"
    /\ stageLog = <<>>
    /\ ret.err = ""
    /\ args.sourcePath = S.src
    /\ \E i \in 1..Len(ZipRead(pk.zipData)) :
          ZipRead(pk.zipData)[i].name = S.data \o <<"/">> \o S.c_json
    /\ \E i \in 1..Len(ZipRead(pk.zipData)) :
          ZipRead(pk.zipData)[i].name = S.data \o <<"/">>

\* C15: compressing a directory that holds no regular file succeeds and
\* returns a valid archive (with zero entries when the directory has no
\* entry at all), through ZipFolder and through ZipFolderWithProgress alike,
\* unless the walk met an I/O error.
C15_EmptySucceeds ==
    LET root == Clean(args.sourcePath)
        walk == WalkList(InitFS, root)
        done == pc = "encrypt" \/ pc = "returned"
        ioError == \/ ret.err = "failed to walk directory"
                   \/ ret.cause = "failed to count files"
                   \/ ret.cause = "failed to walk directory: lstat"
    IN  (/\ pc # "off"
         /\ done
         /\ IsDir(InitFS, root)
         /\ WalkFiles(InitFS, walk) = {}
         /\ ~ioError) =>
            /\ ret.err = ""
            /\ Len(ZipRead(pk.zipData)) = Len(walk) - 1
            /\ Len(walk) = 1 => pk.zipData = <<>>

-----------------------------------------------------------------------------
(* Claims about the descriptor (checked under Spec, on the descriptor      *)
(* Package generated)                                                      *)

\* C17: the descriptor has an MsiInfo element only when the setup file is an
\* MSI and the extractor produced at least one non-empty string field
\* (product code, version, package code, upgrade code, publisher); it has
\* none when the setup is not an MSI, when the extraction failed, and when
\* the extraction succeeded with every string field empty.
C17_MsiInfoOnlyWithValues ==
    (pc \in {"assemble", "mkdir", "write"} \/ (pc = "returned" /\ Len(stageLog) > 6)) =>
        LET x == pk.detectionXML.xml
            m == pk.msiInfo
        IN  (\E i \in 1..Len(x) : x[i].kind = "open" /\ x[i].name = "MsiInfo") =>
                /\ IsMsiFile(args.setupFile)
                /\ ~m.nil
                /\ \/ m.ProductCode # <<>>
                   \/ m.ProductVersion # <<>>
                   \/ m.PackageCode # <<>>
                   \/ m.UpgradeCode # <<>>
                   \/ m.Publisher # <<>>

\* C18: the descriptor emits its elements in the order Name,
\* UnencryptedContentSize, FileName, SetupFile, EncryptionInfo (EncryptionKey,
\* MacKey, InitializationVector, Mac, ProfileIdentifier, FileDigest,
\* FileDigestAlgorithm), then MsiInfo when present (MsiProductCode,
\* MsiProductVersion, MsiPackageCode, MsiUpgradeCode, the nine fixed-value
\* elements, MsiPublisher last); every element but the MSI string elements is
\* always there, an MSI string element is there when its value is not empty;
\* Name is MsiInfo.ProductName when that is non-empty and appName otherwise.
C18_ElementOrder ==
    (pc \in {"assemble", "mkdir", "write"} \/ (pc = "returned" /\ Len(stageLog) > 6)) =>
        LET x == pk.detectionXML.xml
            m == pk.msiInfo
            order == <<"ApplicationInfo", "Name", "UnencryptedContentSize", "FileName",
                       "SetupFile", "EncryptionInfo", "EncryptionKey", "MacKey",
                       "InitializationVector", "Mac", "ProfileIdentifier", "FileDigest",
                       "FileDigestAlgorithm", "MsiInfo", "MsiProductCode",
                       "MsiProductVersion", "MsiPackageCode", "MsiUpgradeCode",
                       "MsiExecutionContext", "MsiRequiresLogon", "MsiRequiresReboot",
                       "MsiIsMachineInstall", "MsiIsUserInstall", "MsiIncludesServices",
                       "MsiIncludesODBCDataSource", "MsiContainsSystemRegistryKeys",
                       "MsiContainsSystemFolders", "MsiPublisher">>
            pos(name) == CHOOSE k \in 1..Len(order) : order[k] = name
            tags == { i \in 1..Len(x) : x[i].kind # "close" }
            has(name) == \E i \in tags : x[i].name = name
            at(name) == CHOOSE i \in tags : x[i].name = name
            optional == [MsiProductCode |-> m.ProductCode,
                         MsiProductVersion |-> m.ProductVersion,
                         MsiPackageCode |-> m.PackageCode,
                         MsiUpgradeCode |-> m.UpgradeCode,
                         MsiPublisher |-> m.Publisher]
        IN  /\ \A i \in tags : \E k \in 1..Len(order) : order[k] = x[i].name
            /\ \A i, j \in tags : i < j => pos(x[i].name) < pos(x[j].name)
            /\ \A k \in 1..13 : has(order[k])
            /\ has("MsiInfo") <=> ~m.nil
            /\ \A k \in 15..Len(order) :
                  has(order[k]) <=>
                     /\ ~m.nil
                     /\ order[k] \in DOMAIN optional => optional[order[k]] # <<>>
            /\ \A k \in 15..Len(order) :
                  (has(order[k]) /\ order[k] \in DOMAIN optional) =>
                     x[at(order[k])].value = optional[order[k]]
            /\ x[at("Name")].value =
                  IF ~m.nil /\ m.ProductName # <<>> THEN m.ProductName
                  ELSE GetApplicationName(args.setupFile)
            /\ x[at("SetupFile")].value = args.setupFile
            /\ x[at("UnencryptedContentSize")].value = Len(pk.zipData)

\* an MSI whose extraction found the codes and the version but no publisher
C18_Witness ==
    /\ pc = "assemble"
    /\ args.setupFile = S.app_msi
    /\ pk.msiInfo.ProductCode = S.guid1
    /\ pk.msiInfo.Publisher = <<>>
    /\ Len(pk.detectionXML.xml) = 29
    /\ pk.detectionXML.xml[16].name = "MsiProductCode"
    /\ pk.detectionXML.xml[27].name = "MsiContainsSystemFolders"

\* C19: the bytes GenerateDetectionXML returns begin with the XML declaration
\* (version 1.0, encoding UTF-8), followed by the ApplicationInfo root
\* element with the attributes xmlns:xsd, xmlns:xsi and ToolVersion 1.8.6.0.
C19_XmlDeclaration ==
    (pc \in {"assemble", "mkdir", "write"} \/ (pc = "returned" /\ Len(stageLog) > 6)) =>
        LET x == pk.detectionXML.xml
        IN  /\ x[1].kind = "decl"
            /\ x[2].kind = "open"
            /\ x[2].name = "ApplicationInfo"
            /\ \E i \in 1..Len(x[2].value) : x[2].value[i][1] = "xmlns:xsd"
            /\ \E i \in 1..Len(x[2].value) : x[2].value[i][1] = "xmlns:xsi"
            /\ \E i \in 1..Len(x[2].value) : x[2].value[i] = <<"ToolVersion", "1.8.6.0">>

-----------------------------------------------------------------------------
(* Claims about the MSI extractor (checked under SpecMsi) *)

\* C20: when PIDSI_REVNUMBER is already a braced GUID of valid shape, the
\* extractor returns it unchanged as the PackageCode: the pair-swap decoding
\* is applied only to a value that is not a braced GUID.
C20_BracedGuidUnchanged ==
    (ole.pc = "done" /\ ole.present /\ isValidGUID(ole.str)) =>
        ole.packageCode = ole.str

C22_Cascade ==
    (xm.pc = "done" /\ xm.err = "") =>
        LET raw == xm.file.raw
            pool == xm.file.pool
            In(layer, p) == \E i \in 1..Len(xm.ran[p]) : xm.ran[p][i] = layer
            first(a, b, c) == IF a # <<>> THEN a ELSE IF b # <<>> THEN b ELSE c
            cascade(p, a, b, c) ==
                /\ xm.info[p] = first(a, b, c)
                /\ xm.ran[p][1] = "direct"
                /\ In("pool", p) => a = <<>>
                /\ In("near", p) => (a = <<>> /\ b = <<>>)
            codeDirect == extractMsiPropertyValue(raw, S.ProductCode)
            codePool == findInStringPool(pool, {pool[i] : i \in {k \in DOMAIN pool : isValidGUID(pool[k])}})
            fallback == IF findFirstGUIDInData(xm.file.sdata) # <<>>
                        THEN findFirstGUIDInData(xm.file.sdata)
                        ELSE findCompressedGUID(xm.file.sdata)
            summary == IF xm.file.hasSummary
                       THEN extractPackageCodeFromOLEPS(xm.file.present, xm.file.str, fallback)
                       ELSE <<>>
        IN  /\ cascade("ProductCode", codeDirect, codePool,
                       extractNearProperty(raw, S.ProductCode, "guid"))
            /\ cascade("ProductVersion", extractMsiPropertyValue(raw, S.ProductVersion),
                       findInStringPool(pool, {pool[i] : i \in {k \in DOMAIN pool : isValidVersion(pool[k])}}),
                       extractNearProperty(raw, S.ProductVersion, "version"))
            /\ cascade("Publisher", extractMsiPropertyValue(raw, S.Manufacturer),
                       findPublisherInStringPool(pool),
                       extractNearProperty(raw, S.Manufacturer, "string"))
            /\ cascade("UpgradeCode", extractMsiPropertyValue(raw, S.UpgradeCode),
                       findInStringPool(pool,
                           {pool[i] : i \in {k \in DOMAIN pool :
                               /\ isValidGUID(pool[k])
                               /\ pool[k] # first(codeDirect, codePool, <<>>)}}),
                       extractNearProperty(raw, S.UpgradeCode, "guid"))
            /\ xm.info.PackageCode = first(summary, findFirstGUIDInData(raw), <<>>)
            /\ In("any", "PackageCode") => summary = <<>>

\* a call in which the direct scan found the version and the upgrade code,
\* the string pool gave the product code and the publisher, and the package
\* code is the first GUID of the raw bytes
C22_Witness ==
    /\ xm.pc = "done"
    /\ xm.err = ""
    /\ xm.ran.ProductVersion = <<"direct">>
    /\ xm.info.ProductVersion = S.version
    /\ xm.ran.UpgradeCode = <<"direct">>
    /\ isValidGUID(xm.info.UpgradeCode)
    /\ xm.ran.ProductCode = <<"direct", "pool">>
    /\ xm.info.ProductCode = xm.file.pool[1]
    /\ xm.ran.Publisher = <<"direct", "pool">>
    /\ xm.info.Publisher = xm.file.pool[3]
    /\ xm.ran.PackageCode = <<"any">>
    /\ isValidGUID(xm.info.PackageCode)

\* C23: in a call of ExtractMsiInfo that returned, ProductCode, UpgradeCode
\* and PackageCode are each empty or 38 characters of the GUID shape ('{' and
\* '}' first and last, '-' at positions 9, 14, 19, 24 counted from 0, hex
\* digits elsewhere), and ProductVersion is empty or accepted by
\* isValidVersion, whichever layer produced the value.
C23_ShapesOfValues ==
    (xm.pc = "done" /\ xm.err = "") =>
        LET hex == {"0", "1", "2", "3", "4", "5", "6", "7", "8", "9",
                    "A", "B", "C", "D", "E", "F", "a", "b", "c", "d", "e", "f"}
            shaped(g) ==
                /\ Len(g) = 38
                /\ g[1] = "{"
                /\ g[38] = "}"
                /\ \A i \in 2..37 : IF i \in {10, 15, 20, 25} THEN g[i] = "-"
                                                              ELSE g[i] \in hex
        IN  /\ \A p \in {"ProductCode", "UpgradeCode", "PackageCode"} :
                   xm.info[p] = <<>> \/ shaped(xm.info[p])
            /\ xm.info.ProductVersion = <<>> \/ isValidVersion(xm.info.ProductVersion)

\* a call in which the product code came from the UTF-16LE scan, the version
\* and the upgrade code from the string pool and the package code from the
\* raw bytes
C23_Witness ==
    /\ xm.pc = "done"
    /\ xm.err = ""
    /\ xm.ran.ProductCode = <<"direct">>
    /\ Len(xm.info.ProductCode) = 38
    /\ xm.info.ProductCode[2] = "A"
    /\ xm.ran.ProductVersion = <<"direct", "pool">>
    /\ xm.info.ProductVersion = xm.file.pool[2]
    /\ xm.ran.UpgradeCode = <<"direct", "pool">>
    /\ xm.info.UpgradeCode = xm.file.pool[1]
    /\ xm.ran.PackageCode = <<"any">>
    /\ Len(xm.info.PackageCode) = 38
    /\ xm.info.PackageCode[2] = "D"

\* C24: the version validator accepts a string if and only if its length is
\* between 3 and 32, its first and last characters are digits, it has between
\* 1 and 3 dots and every character is a digit or a dot. Seen through
\* ExtractMsiInfo: a ProductVersion that is returned has this shape, and when
\* the direct scan finds no version and the string pool holds a string of
\* this shape, a ProductVersion is returned.
C24_VersionShape ==
    (xm.pc = "done" /\ xm.err = "") =>
        LET digit == {"0", "1", "2", "3", "4", "5", "6", "7", "8", "9"}
            dots(s) == Cardinality({i \in 1..Len(s) : s[i] = "."})
            shaped(s) ==
                /\ Len(s) >= 3
                /\ Len(s) <= 32
                /\ s[1] \in digit
                /\ s[Len(s)] \in digit
                /\ dots(s) \in 1..3
                /\ \A i \in 1..Len(s) : s[i] \in digit \cup {"."}
            version == xm.info.ProductVersion
            pool == xm.file.pool
        IN  /\ version # <<>> => shaped(version)
            /\ (\E i \in 1..Len(pool) : shaped(pool[i])) => version # <<>>

\* C25: a Manufacturer or ProductName value that the scan of the raw bytes
\* for the ASCII name accepts has a length between 2 and 100, does not start
\* or end with one of the characters [ ] ( ) and contains, in lower case, none
\* of the blocklisted UI-dialog substrings.
C25_NameShape ==
    (xm.pc = "done" /\ xm.err = "") =>
        LET blocklist ==
                { <<"s", "e", "t", "u", "p", " ", "w", "i", "z", "a", "r", "d">>, <<"a", "l", "l", "o", "w", "s", " ", "y", "o", "u">>, <<"t", "h", "e", " ", "w", "a", "y">>, <<"c", "h", "a", "n", "g", "e", " ", "t", "h", "e">>,
                  <<"i", "s", " ", "i", "n", "s", "t", "a", "l", "l", "e", "d">>, <<"c", "l", "i", "c", "k", " ", "n", "e", "x", "t">>, <<"c", "l", "i", "c", "k", " ", "b", "a", "c", "k">>, <<"t", "o", " ", "c", "o", "n", "t", "i", "n", "u", "e">>,
                  <<"w", "i", "l", "l", " ", "b", "e", " ", "i", "n", "s", "t", "a", "l", "l", "e", "d">>, <<"i", "n", "s", "t", "a", "l", "l", "a", "t", "i", "o", "n">>, <<"c", "o", "m", "p", "l", "e", "t", "i", "n", "g", " ", "t", "h", "e">>,
                  <<"w", "e", "l", "c", "o", "m", "e", " ", "t", "o">>, <<"p", "l", "e", "a", "s", "e", " ", "w", "a", "i", "t">> }
            contains(s, sub) ==
                \E i \in 1..(Len(s) - Len(sub) + 1) : SubSeq(s, i, i + Len(sub) - 1) = sub
            accepted(s) ==
                /\ Len(s) >= 2
                /\ Len(s) <= 100
                /\ s[1] \notin {"[", "]", "(", ")"}
                /\ s[Len(s)] \notin {"[", "]", "(", ")"}
                /\ \A sub \in blocklist : ~contains(ToLower(s), sub)
            ascii(name) == extractPropertyValueASCII(xm.file.raw, name)
        IN  /\ ascii(S.Manufacturer) # <<>> =>
                   (xm.info.Publisher = ascii(S.Manufacturer) /\ accepted(xm.info.Publisher))
            /\ ascii(S.ProductName) # <<>> =>
                   (xm.info.ProductName = ascii(S.ProductName) /\ accepted(xm.info.ProductName))

-----------------------------------------------------------------------------
(* Claims about the source files the compressor opens (checked under       *)
(* SpecZip)                                                                *)

\* C26: during ZipFolderWithProgress at most one source file is open at any
\* moment: every file is opened, copied and closed before the walk goes on,
\* when the copy succeeds and when it fails, so between two entries no source
\* file is open and the largest number that were open at once is at most 1.
C26_OneOpenFile ==
    /\ zw.open = 0
    /\ zw.peak <= 1

\* the copy of the third file failed after two files were compressed
C26_Witness ==
    /\ pc = "returned"
    /\ ret.cause = "failed to walk directory: failed to write file to ZIP"
    /\ zw.processed = 2
    /\ zw.peak = 1
    /\ zw.open = 0

-----------------------------------------------------------------------------
(* Claims about the terminal interface (checked under SpecTui) *)

\* C27: a quit key (q or ctrl+c) that is pressed while the processing screen
\* is shown quits the program, as the key help of that screen says.
C27_QuitWhileProcessing ==
    (/\ tui.last.msg.type = "key"
     /\ tui.last.msg.key \in {"q", "ctrl+c"}
     /\ tui.last.m.screen = "processing") => tui.quit

\* C28: whatever the order in which the packageStartMsg of a command and the
\* messages of its goroutine are received, the processing screen is not the
\* one that is left once every message of every run has been received, and
\* the packageStartMsg of a run never puts the displayed progress back to 0
\* after a progress report of that run was displayed.
C28_RunEndsOnItsOutcome ==
    /\ (/\ tui.runs # <<>>
        /\ \A i \in 1..Len(tui.runs) :
              tui.runs[i].start = "delivered" /\ tui.runs[i].final # "none")
       => tui.m.screen # "processing"
    /\ \A i \in 1..Len(tui.runs) : ~tui.runs[i].reset

\* C29: at most one startPackaging is issued and not yet answered by its
\* packageCompleteMsg or packageErrorMsg: no key press issues a second one
\* while a run is in flight.
C29_OneRunInFlight ==
    Cardinality({i \in 1..Len(tui.runs) : tui.runs[i].final = "none"}) <= 1

\* C30: on the input screen with a text field focused, a printable character
\* that is bound to nothing there (a, r, q) is appended to the focused field,
\* the screen, the focus and the other fields stay as they are and the
\* program does not quit.
C30_PrintableKeyIsTyped ==
    (/\ tui.last.msg.type = "key"
     /\ tui.last.msg.key \in {"a", "r", "q"}
     /\ tui.last.m.screen = "input"
     /\ tui.last.m.focusIndex < 3)
    => /\ ~tui.quit
       /\ tui.m.screen = "input"
       /\ tui.m.focusIndex = tui.last.m.focusIndex
       /\ \A i \in 1..3 :
             tui.m.inputs[i] = IF i = tui.last.m.focusIndex + 1
                               THEN Append(tui.last.m.inputs[i], tui.last.msg.key)
                               ELSE tui.last.m.inputs[i]

====
